---------------------------- MODULE Spec2Model ----------------------------
(***************************************************************************)
(* LuxCore / NovaSanctum: the authentication, session and token lifecycle *)
(* of backend/src/services/novas Sanctum.service.ts together with the     *)
(* login, refresh and logout routes of backend/src/routes/auth.ts.        *)
(*                                                                         *)
(* Every request is served by a handler h.  A handler runs its service    *)
(* method one store operation (one awaited Prisma call) at a time, so the *)
(* handlers interleave exactly where the code awaits.  Computation done   *)
(* between two awaits (the lock check, bcrypt.compare, generateTokens) is *)
(* local to the handler and is folded into the store operation next to    *)
(* it.                                                                     *)
(*                                                                         *)
(* Time is the value of Date.now(), in milliseconds.  The configuration   *)
(* values maxLoginAttempts, lockoutDurationMs and sessionTimeoutMs are    *)
(* read from the environment by the constructor (service lines 104-106);  *)
(* the model runs with small values of them instead of the defaults       *)
(* 5, 900000 and 86400000.                                                 *)
(***************************************************************************)
EXTENDS Integers, Sequences, FiniteSets, TLC

(***************************************************************************)
(* Bounds of the model.                                                    *)
(***************************************************************************)
\* requests served in one behaviour
MaxRequests == 3
\* last instant of the clock
MaxTime == 2
\* MAX_LOGIN_ATTEMPTS of the environment (default 5)
maxLoginAttempts == 2
\* LOCKOUT_DURATION_MS of the environment (default 900000)
lockoutDurationMs == 1
\* SESSION_TIMEOUT_MS of the environment (default 86400000)
sessionTimeoutMs == 1
\* guarded requests served in one behaviour
MaxGuarded == 1

(***************************************************************************)
(* Inputs.                                                                 *)
(***************************************************************************)
Handlers == {"h1", "h2"}
UserIds == {"u1"}
NoUser == "undefined"
EmailOf == [u \in UserIds |-> "a@x.com"]
PlainPasswordOf == [u \in UserIds |-> "P1"]
\* "" is a missing body field
Emails == {"a@x.com", "nobody@x.com", ""}
Passwords == {"P1", "P2"}
\* req.ip of a login or logout request, and of a refresh request
ClientIps == {"ip1"}
RefreshIps == {"ip1", "ip2"}
UserAgent == "UA"
\* a refresh token that was never issued, and a missing body field
ForgedToken == 0
MissingToken == -1
NoSession == 0
\* the roles and permissions of the store, and a user id the store no longer holds
RoleNames == {"admin", "user"}
PermissionNames == {"post:delete:own", "post:delete:all"}
DeletedUser == "u0"
\* an authenticated identity that owns no session: the caller of a logout that
\* presents the refresh token of another user
OtherUser == "u2"
\* a secret that is not the service's, and a request without a bearer token
ForgedSecret == "not-the-secret"
NoAccessToken == [type |-> "none"]
\* the owner ids a request can name, "" for a field the request does not carry
OwnerIds == {"u1", "u2"}
\* the resources of an injected resourceService: id -> userId of the row; r9 has no row
ResourceIds == {"r1", "r2", "r9"}
OwnerOf == [r \in {"r1", "r2"} |-> IF r = "r1" THEN "u1" ELSE "u2"]
\* process.env.NODE_ENV; "" is unset
NodeEnvs == {"production", "development", ""}
\* the jobs of the timers of initializeSecurity
Jobs == {"cleanupExpiredSessions", "getSecurityStats"}

(***************************************************************************)
(* rateLimitMiddleware(windowMs, max): its two parameters, and the         *)
(* addresses (req.ip) of the requests it serves.                           *)
(***************************************************************************)
windowMs == 1
max == 1
RequestIps == {"ip1", "ip2"}

(***************************************************************************)
(* Configuration (constructor).                                            *)
(***************************************************************************)
jwtSecret == "default-secret-change-in-production"
jwtExpiresIn == <<24, "h">>
refreshTokenExpiresIn == <<7, "d">>

VARIABLES
    users,          \* prisma.user: id -> row
    sessions,       \* prisma.session: set of rows
    auditLog,       \* prisma.auditLog: sequence of rows, in creation order
    now,            \* Date.now()
    nextToken,      \* uuidv4(): the next fresh value
    nextSessionId,  \* the next fresh session id
    pc,             \* handler -> the store operation it is about to run
    req,            \* handler -> the locals of the request it serves or served last
    nreq,           \* requests started
    spent,          \* history: the raw refresh tokens a rotation has replaced
    issued,         \* history: the raw refresh tokens returned to a client
    roles,          \* prisma.user include roles: user id -> names of the user's roles
    grants,         \* prisma.role include permissions: role name -> permission names
    gate,           \* the guarded request served last: what its middleware chain did
    proc,           \* the Node process: NODE_ENV, whether it runs, what its timers logged
    counted,        \* history: user id -> increments of failedLoginAttempts since the last reset
    requests,       \* rateLimitMiddleware: its Map, ip -> timestamps of the requests it admitted
    decided,        \* history: the decisions of rateLimitMiddleware, in order
    client          \* the browser: the frontend service's authState, and the two storages

vars == <<users, sessions, auditLog, now, nextToken, nextSessionId, pc, req, nreq, spent, issued,
          roles, grants, gate, proc, counted, requests, decided, client>>

(***************************************************************************)
(* Pure functions.                                                         *)
(***************************************************************************)
\* bcrypt.hash / bcrypt.compare: one-way, compared by hashing the candidate
BcryptHash(password) == <<"bcrypt", password>>
BcryptCompare(password, hash) == BcryptHash(password) = hash

\* hashToken: sha256 hex digest of the raw token
HashToken(token) == <<"sha256", token>>

units == [s |-> 1000, m |-> 60 * 1000, h |-> 60 * 60 * 1000, d |-> 24 * 60 * 60 * 1000]

ParseJwtExpirationSecondsOnly(expiresIn) ==
    IF expiresIn[1] \in Nat /\ expiresIn[2] = "s" THEN expiresIn[1] * units.s ELSE -1

\* parseJwtExpiration: "<digits><unit>" to milliseconds; -1 stands for the throw
ParseJwtExpiration(expiresIn) ==
    IF expiresIn[1] \in Nat /\ expiresIn[2] \in DOMAIN units
    THEN expiresIn[1] * units[expiresIn[2]]
    ELSE -1

\* jwt.sign({userId, type: 'access'}, secret, {expiresIn})
JwtSign(userId, secret, expiresIn, t) ==
    [userId |-> userId, type |-> "access", iat |-> t,
     expiresIn |-> ParseJwtExpiration(expiresIn), sig |-> secret]

\* generateTokens
GenerateTokens(userId, t, uuid) ==
    [accessToken |-> JwtSign(userId, jwtSecret, jwtExpiresIn, t),
     refreshToken |-> uuid,
     expiresIn |-> ParseJwtExpiration(jwtExpiresIn),
     refreshExpiresIn |-> ParseJwtExpiration(refreshTokenExpiresIn),
     tokenType |-> "Bearer"]

NoTokens == [tokenType |-> "none"]

\* prisma.user.findUnique({where: {email}})
FindUserByEmail(email) ==
    IF \E u \in UserIds : EmailOf[u] = email
    THEN CHOOSE u \in UserIds : EmailOf[u] = email
    ELSE NoUser

(***************************************************************************)
(* Audit log.  A row's id and timestamp are not modelled.                  *)
(***************************************************************************)
\* logAuditEvent: the row created; ipAddress and userAgent come from details
AuditRow(userId, action, resource, details) ==
    [userId |-> userId, action |-> action, resource |-> resource,
     ipAddress |-> IF "ipAddress" \in DOMAIN details THEN details.ipAddress ELSE "unknown",
     userAgent |-> IF "userAgent" \in DOMAIN details THEN details.userAgent ELSE "unknown",
     details |-> details]

\* logFailedLogin: the row created
FailedLoginRow(email, ipAddress, userAgent, reason) ==
    AuditRow(NoUser, "LOGIN_FAILED", "AUTH",
        [email |-> email, ipAddress |-> ipAddress, userAgent |-> userAgent,
         reason |-> reason, success |-> FALSE])

(***************************************************************************)
(* Handler locals.  response is what the route has sent.  seenCount is the *)
(* failedLoginAttempts of the row the lookup read.  Three fields are       *)
(* history: lockSeen, the lock the lookup read ("none", "cooling" while    *)
(* its lockedUntil was in the future, "over" once it was not); logged, the *)
(* audit rows the request has created; raced, whether another request      *)
(* recorded a failure on the same account after this one's reset.          *)
(***************************************************************************)
\* no identity: (req as any).user is undefined
NoIdentity == [id |-> NoUser, roles |-> {}, permissions |-> {}, isActive |-> FALSE]
NoError == [class |-> "none", message |-> "", statusCode |-> 0, code |-> ""]
NoGuard == [kind |-> "none"]
\* before the first guarded request
IdleGate ==
    [n |-> 0, auth |-> "none", token |-> NoAccessToken, guard |-> NoGuard, at |-> -1,
     cause |-> "", verifyError |-> "", user |-> NoIdentity,
     passed |-> FALSE, error |-> NoError, status |-> 0, message |-> ""]

\* the failure a timer has logged last, before the first failure
NoJobError == [job |-> "", at |-> -1]
\* the statistics getSecurityStats returns, before the first run of its timer
NoStats == [totalUsers |-> -1, activeSessions |-> -1, failedLogins24h |-> -1,
            lockedAccounts |-> -1]

IdleReq ==
    [op |-> "none", email |-> "", password |-> "", ipAddress |-> "",
     refreshToken |-> MissingToken, userId |-> NoUser, sessionId |-> NoSession,
     sessionIp |-> "", ok |-> FALSE, error |-> "", tokens |-> NoTokens,
     response |-> [status |-> 0],
     lockSeen |-> "none", seenCount |-> 0, logged |-> <<>>, raced |-> FALSE]

(***************************************************************************)
(* The browser side: the frontend NovaSanctumService.  null is Null; the   *)
(* two storages map the four STORAGE_KEYS to strings, Null for no item.    *)
(***************************************************************************)
Null == "null"
\* expiresAt: null
NoExpiry == -1
\* the access tokens, refresh tokens and users a response of the backend carries
ClientAccessTokens == {"at1", "at2"}
ClientRefreshTokens == {"rt1"}
ClientUsers == {"alice"}
\* tokens.expiresIn, in ticks of the clock
ExpiresIns == {1, 2}
\* private authState, as declared
NoAuthState ==
    [isAuthenticated |-> FALSE, user |-> Null, accessToken |-> Null,
     refreshToken |-> Null, expiresAt |-> NoExpiry]
\* a storage without items
EmptyStorage ==
    [ACCESS_TOKEN |-> Null, REFRESH_TOKEN |-> Null, USER_DATA |-> Null, EXPIRES_AT |-> Null]
\* the browser before the first page load; cleared is history: the access token
\* the last clearAccessToken() removed, until another access token is set
NoClient ==
    [authState |-> NoAuthState, sessionStorage |-> EmptyStorage,
     localStorage |-> EmptyStorage, cleared |-> Null]

\* the state after the constructors, in a process started with NODE_ENV = env
InitIn(env) ==
    /\ users = [u \in UserIds |->
                  [id |-> u, email |-> EmailOf[u],
                   password |-> BcryptHash(PlainPasswordOf[u]),
                   isActive |-> TRUE, isLocked |-> FALSE, lockedUntil |-> -1,
                   failedLoginAttempts |-> 0, lastLoginAt |-> -1]]
    /\ sessions = {}
    /\ auditLog = <<>>
    /\ now = 0
    /\ nextToken = 1
    /\ nextSessionId = 1
    /\ pc = [h \in Handlers |-> "idle"]
    /\ req = [h \in Handlers |-> IdleReq]
    /\ nreq = 0
    /\ spent = {}
    /\ issued = {}
    /\ roles = [u \in UserIds |-> {"user"}]
    /\ grants = [r \in RoleNames |->
                   IF r = "admin" THEN {"post:delete:all"} ELSE {"post:delete:own"}]
    /\ gate = IdleGate
    /\ proc = [nodeEnv |-> env, running |-> TRUE, jobError |-> NoJobError, stats |-> NoStats]
    /\ counted = [u \in UserIds |-> 0]
    /\ requests = [key \in {} |-> <<>>]
    /\ decided = <<>>
    /\ client = NoClient

Init == \E env \in NodeEnvs : InitIn(env)

\* a handler is free before its first request and after it has responded; a
\* request is given to the first free handler
Free(h) == pc[h] \in {"idle", "done"}
Chosen(h) == Free(h) /\ (h = "h2" => ~Free("h1"))
Dispatch(h) ==
    /\ proc.running
    /\ Chosen(h)
    /\ nreq < MaxRequests
    /\ nreq' = nreq + 1

(***************************************************************************)
(* The responses of the routes of routes/auth.ts, for the finished request *)
(* r: a missing body field, the service's return, the service's throw.     *)
(***************************************************************************)
LoginResponseLeaky(r) ==
    IF r.op = "login400" THEN [status |-> 400, error |-> "Email and password are required"]
    ELSE IF r.ok THEN [status |-> 200, message |-> "Login successful",
                       tokens |-> r.tokens, user |-> [email |-> r.email]]
    ELSE [status |-> 401, error |-> r.error]

\* router.post('/login')
LoginResponse(r) ==
    IF r.op = "login400" THEN [status |-> 400, error |-> "Email and password are required"]
    ELSE IF r.ok THEN [status |-> 200, message |-> "Login successful",
                       tokens |-> r.tokens, user |-> [email |-> r.email]]
    ELSE [status |-> 401, error |-> "Invalid credentials"]

\* router.post('/refresh')
RefreshResponse(r) ==
    IF r.op = "refresh400" THEN [status |-> 400, error |-> "Refresh token is required"]
    ELSE IF r.ok THEN [status |-> 200, message |-> "Token refreshed successfully",
                       tokens |-> r.tokens]
    ELSE [status |-> 401, error |-> "Invalid refresh token"]

\* router.post('/logout')
LogoutResponse(r) ==
    IF r.op = "logout400" THEN [status |-> 400, error |-> "Refresh token is required"]
    ELSE IF r.ok THEN [status |-> 200, message |-> "Logout successful"]
    ELSE [status |-> 500, error |-> "Logout failed"]

\* the request r ends: its route sends the response
Respond(r) ==
    [r EXCEPT !.response =
        CASE r.op \in {"login", "login400"} -> LoginResponse(r)
          [] r.op \in {"refresh", "refresh400"} -> RefreshResponse(r)
          [] OTHER -> LogoutResponse(r)]

LogOverwrite(h, row, r) ==
    /\ auditLog' = <<row>>
    /\ req' = [req EXCEPT ![h] = [r EXCEPT !.logged = Append(@, row)]]

\* logAuditEvent: the row is created, by the request r of h
Log(h, row, r) ==
    /\ auditLog' = Append(auditLog, row)
    /\ req' = [req EXCEPT ![h] = [r EXCEPT !.logged = Append(@, row)]]

(***************************************************************************)
(* authenticateUser, called by router.post('/login').                      *)
(***************************************************************************)
LockedMessage == "Account is locked due to multiple failed login attempts"
InvalidMessage == "Invalid credentials"

LoginBranchIgnoresLock(user, password) ==
    IF user = NoUser THEN "logNotFound"
    ELSE IF ~BcryptCompare(password, users[user].password) THEN "increment"
    ELSE "reset"

LoginBranchVerifyFirst(user, password) ==
    IF user = NoUser THEN "logNotFound"
    ELSE IF ~BcryptCompare(password, users[user].password) THEN "increment"
    ELSE IF users[user].isLocked THEN "logLocked"
    ELSE "reset"

\* the branch authenticateUser takes on the row read by findUnique
LoginBranch(user, password) ==
    IF user = NoUser THEN "logNotFound"
    ELSE IF users[user].isLocked THEN "logLocked"
    ELSE IF ~BcryptCompare(password, users[user].password) THEN "increment"
    ELSE "reset"

\* history: the lock on the row read by findUnique
LockSeen(user) ==
    IF user = NoUser \/ ~users[user].isLocked THEN "none"
    ELSE IF users[user].lockedUntil > now THEN "cooling"
    ELSE "over"

\* user.failedLoginAttempts on the row read by findUnique
SeenCount(user) == IF user = NoUser THEN 0 ELSE users[user].failedLoginAttempts

\* router.post('/login') up to and including the findUnique of authenticateUser
Login(h, email, password, ipAddress) ==
    /\ Dispatch(h)
    /\ LET user == FindUserByEmail(email)
           base == [IdleReq EXCEPT !.op = "login", !.email = email,
                       !.password = password, !.ipAddress = ipAddress]
       IN IF email = "" \/ password = ""
          THEN /\ pc' = [pc EXCEPT ![h] = "done"]
               /\ req' = [req EXCEPT ![h] = Respond([base EXCEPT !.op = "login400"])]
          ELSE /\ pc' = [pc EXCEPT ![h] = LoginBranch(user, password)]
               /\ req' = [req EXCEPT ![h] =
                            [base EXCEPT !.userId = user, !.lockSeen = LockSeen(user),
                                         !.seenCount = SeenCount(user)]]
    /\ UNCHANGED <<users, sessions, auditLog, now, nextToken, nextSessionId, spent, issued, roles, grants, gate, proc,
                   counted, requests, decided, client>>

FailureReasonGeneric(branch) == "Invalid credentials"

\* the reason each failing branch passes to logFailedLogin
FailureReason(branch) ==
    CASE branch = "logNotFound" -> "User not found"
      [] branch = "logLocked" -> "Account locked"
      [] OTHER -> "Invalid password"

\* the message of the Error each failing branch throws
FailureMessage(branch) ==
    IF branch = "logLocked" THEN LockedMessage ELSE InvalidMessage

\* the logFailedLogin of the failing branch, and the throw after it
LogFailure(h) ==
    /\ proc.running
    /\ pc[h] \in {"logNotFound", "logLocked", "logInvalid"}
    /\ Log(h, FailedLoginRow(req[h].email, req[h].ipAddress, UserAgent,
                             FailureReason(pc[h])),
           Respond([req[h] EXCEPT !.ok = FALSE, !.error = FailureMessage(pc[h])]))
    /\ pc' = [pc EXCEPT ![h] = "done"]
    /\ UNCHANGED <<users, sessions, now, nextToken, nextSessionId, nreq, spent, issued, roles, grants, gate, proc,
                   counted, requests, decided, client>>

\* history: the requests past their reset on account u have been raced
Raced(h, u) ==
    [g \in Handlers |->
        IF g # h /\ req[g].userId = u
           /\ pc[g] \in {"createSession", "updateLastLogin", "logLogin"}
        THEN [req[g] EXCEPT !.raced = TRUE]
        ELSE req[g]]

LockDueStrict(count) == count > maxLoginAttempts

\* the lock condition of handleFailedLogin
LockDue(count) == count >= maxLoginAttempts

\* a read-modify-write: the count the lookup read, plus one
IncrementedFromLookup(row, r) == r.seenCount + 1

\* failedLoginAttempts: {increment: 1}, applied by the store to the row it holds
Incremented(row, r) == row.failedLoginAttempts + 1

\* handleFailedLogin: failedLoginAttempts: {increment: 1}, returning the row
IncrementFailed(h) ==
    /\ proc.running
    /\ pc[h] = "increment"
    /\ LET u == req[h].userId
           count == Incremented(users[u], req[h])
       IN /\ users' = [users EXCEPT ![u].failedLoginAttempts = count]
          /\ pc' = [pc EXCEPT ![h] = IF LockDue(count) THEN "lock" ELSE "logInvalid"]
          /\ req' = Raced(h, u)
          /\ counted' = [counted EXCEPT ![u] = @ + 1]
    /\ UNCHANGED <<sessions, auditLog, now, nextToken, nextSessionId, nreq, spent, issued, roles, grants, gate, proc,
                   requests, decided, client>>

\* handleFailedLogin: isLocked: true, lockedUntil: now + lockoutDurationMs
LockAccount(h) ==
    /\ proc.running
    /\ pc[h] = "lock"
    /\ users' = [users EXCEPT ![req[h].userId].isLocked = TRUE,
                              ![req[h].userId].lockedUntil = now + lockoutDurationMs]
    /\ pc' = [pc EXCEPT ![h] = "logInvalid"]
    /\ req' = Raced(h, req[h].userId)
    /\ UNCHANGED <<sessions, auditLog, now, nextToken, nextSessionId, nreq, spent, issued, roles, grants, gate, proc,
                   counted, requests, decided, client>>

ResetRowKeepCount(row) == [row EXCEPT !.isLocked = FALSE, !.lockedUntil = -1]

\* the row written by resetFailedLoginAttempts; -1 is null
ResetRow(row) ==
    [row EXCEPT !.failedLoginAttempts = 0, !.isLocked = FALSE, !.lockedUntil = -1]

\* resetFailedLoginAttempts
ResetFailedLoginAttempts(h) ==
    /\ proc.running
    /\ pc[h] = "reset"
    /\ users' = [users EXCEPT ![req[h].userId] = ResetRow(@)]
    /\ counted' = [counted EXCEPT ![req[h].userId] = 0]
    /\ pc' = [pc EXCEPT ![h] = "createSession"]
    /\ UNCHANGED <<sessions, auditLog, now, nextToken, nextSessionId, req, nreq, spent, issued, roles, grants, gate, proc,
                   requests, decided, client>>

NewSessionRawToken(id, userId, refreshToken, ipAddress, userAgent, t) ==
    [id |-> id, userId |-> userId, refreshToken |-> refreshToken,
     ipAddress |-> ipAddress, userAgent |-> userAgent, isActive |-> TRUE,
     expiresAt |-> t + sessionTimeoutMs]

\* the row written by createSession
NewSession(id, userId, refreshToken, ipAddress, userAgent, t) ==
    [id |-> id, userId |-> userId, refreshToken |-> HashToken(refreshToken),
     ipAddress |-> ipAddress, userAgent |-> userAgent, isActive |-> TRUE,
     expiresAt |-> t + sessionTimeoutMs]

\* generateTokens, then createSession
CreateSession(h) ==
    /\ proc.running
    /\ pc[h] = "createSession"
    /\ LET tokens == GenerateTokens(req[h].userId, now, nextToken)
       IN /\ req' = [req EXCEPT ![h].tokens = tokens]
          /\ sessions' = sessions \cup
                {NewSession(nextSessionId, req[h].userId, tokens.refreshToken,
                            req[h].ipAddress, UserAgent, now)}
    /\ nextToken' = nextToken + 1
    /\ nextSessionId' = nextSessionId + 1
    /\ pc' = [pc EXCEPT ![h] = "updateLastLogin"]
    /\ UNCHANGED <<users, auditLog, now, nreq, spent, issued, roles, grants, gate, proc,
                   counted, requests, decided, client>>

\* updateLastLogin
UpdateLastLogin(h) ==
    /\ proc.running
    /\ pc[h] = "updateLastLogin"
    /\ users' = [users EXCEPT ![req[h].userId].lastLoginAt = now]
    /\ pc' = [pc EXCEPT ![h] = "logLogin"]
    /\ UNCHANGED <<sessions, auditLog, now, nextToken, nextSessionId, req, nreq, spent, issued, roles, grants, gate, proc,
                   counted, requests, decided, client>>

\* logAuditEvent(user.id, 'LOGIN', ...) and the return of the tokens
LogLogin(h) ==
    /\ proc.running
    /\ pc[h] = "logLogin"
    /\ Log(h, AuditRow(req[h].userId, "LOGIN", "AUTH",
                  [email |-> req[h].email, ipAddress |-> req[h].ipAddress,
                   userAgent |-> UserAgent, success |-> TRUE]),
           Respond([req[h] EXCEPT !.ok = TRUE]))
    /\ issued' = issued \cup {req[h].tokens.refreshToken}
    /\ pc' = [pc EXCEPT ![h] = "done"]
    /\ UNCHANGED <<users, sessions, now, nextToken, nextSessionId, nreq, spent, roles, grants, gate, proc,
                   counted, requests, decided, client>>

(***************************************************************************)
(* refreshToken, called by router.post('/refresh').                        *)
(***************************************************************************)
RefreshMessage == "Invalid or expired refresh token"
\* Prisma's error for an update whose row is gone
RecordNotFound == "Record to update not found"

\* the refresh tokens a client can present: those returned to a client, a forged
\* one (a uuid is not guessed), none
PresentableTokens == issued \cup {ForgedToken, MissingToken}

AcceptableInclusive(s, token, t) ==
    s.refreshToken = HashToken(token) /\ s.isActive /\ s.expiresAt >= t

\* the where clause of refreshToken's findFirst
Acceptable(s, token, t) ==
    s.refreshToken = HashToken(token) /\ s.isActive /\ s.expiresAt > t

\* router.post('/refresh') up to and including the findFirst of refreshToken
Refresh(h, token, ipAddress) ==
    /\ Dispatch(h)
    /\ LET base == [IdleReq EXCEPT !.op = "refresh", !.refreshToken = token,
                                   !.ipAddress = ipAddress]
           found == {s \in sessions : Acceptable(s, token, now)}
       IN IF token = MissingToken
          THEN /\ pc' = [pc EXCEPT ![h] = "done"]
               /\ req' = [req EXCEPT ![h] = Respond([base EXCEPT !.op = "refresh400"])]
          ELSE IF found = {}
          THEN /\ pc' = [pc EXCEPT ![h] = "done"]
               /\ req' = [req EXCEPT ![h] = Respond([base EXCEPT !.error = RefreshMessage])]
          ELSE \E s \in found :
               /\ pc' = [pc EXCEPT ![h] =
                            IF s.ipAddress # ipAddress THEN "logIpMismatch" ELSE "rotate"]
               /\ req' = [req EXCEPT ![h] =
                            [base EXCEPT !.sessionId = s.id, !.userId = s.userId,
                                         !.sessionIp = s.ipAddress]]
    /\ UNCHANGED <<users, sessions, auditLog, now, nextToken, nextSessionId, spent, issued, roles, grants, gate, proc,
                   counted, requests, decided, client>>

LogIpMismatchBlocks(h) ==
    /\ proc.running
    /\ pc[h] = "logIpMismatch"
    /\ Log(h, AuditRow(req[h].userId, "REFRESH_TOKEN_IP_MISMATCH", "AUTH",
                  [sessionIp |-> req[h].sessionIp, requestIp |-> req[h].ipAddress]),
           Respond([req[h] EXCEPT !.error = RefreshMessage]))
    /\ pc' = [pc EXCEPT ![h] = "done"]
    /\ UNCHANGED <<users, sessions, now, nextToken, nextSessionId, nreq, spent, issued, roles, grants, gate, proc,
                   counted, requests, decided, client>>

\* logAuditEvent(session.userId, 'REFRESH_TOKEN_IP_MISMATCH', ...)
LogIpMismatch(h) ==
    /\ proc.running
    /\ pc[h] = "logIpMismatch"
    /\ Log(h, AuditRow(req[h].userId, "REFRESH_TOKEN_IP_MISMATCH", "AUTH",
                  [sessionIp |-> req[h].sessionIp, requestIp |-> req[h].ipAddress]),
           req[h])
    /\ pc' = [pc EXCEPT ![h] = "rotate"]
    /\ UNCHANGED <<users, sessions, now, nextToken, nextSessionId, nreq, spent, issued, roles, grants, gate, proc,
                   counted, requests, decided, client>>

RotatedRowReactivates(s, refreshToken, t) ==
    [s EXCEPT !.refreshToken = HashToken(refreshToken), !.expiresAt = t + sessionTimeoutMs,
              !.isActive = TRUE]

RotatedRowKeepToken(s, refreshToken, t) ==
    [s EXCEPT !.expiresAt = t + sessionTimeoutMs]

\* the row written by updateSession
RotatedRow(s, refreshToken, t) ==
    [s EXCEPT !.refreshToken = HashToken(refreshToken), !.expiresAt = t + sessionTimeoutMs]

\* generateTokens, then updateSession; Prisma's update throws when the row is gone
UpdateSession(h) ==
    /\ proc.running
    /\ pc[h] = "rotate"
    /\ LET tokens == GenerateTokens(req[h].userId, now, nextToken)
           rows == {s \in sessions : s.id = req[h].sessionId}
       IN IF rows = {}
          THEN /\ sessions' = sessions
               /\ req' = [req EXCEPT ![h] = Respond([@ EXCEPT !.error = RecordNotFound])]
               /\ pc' = [pc EXCEPT ![h] = "done"]
               /\ spent' = spent
          ELSE /\ sessions' = (sessions \ rows) \cup
                              {RotatedRow(s, tokens.refreshToken, now) : s \in rows}
               /\ req' = [req EXCEPT ![h].tokens = tokens]
               /\ pc' = [pc EXCEPT ![h] = "logRefresh"]
               /\ spent' = spent \cup {req[h].refreshToken}
    /\ nextToken' = nextToken + 1
    /\ UNCHANGED <<users, auditLog, now, nextSessionId, nreq, issued, roles, grants, gate, proc,
                   counted, requests, decided, client>>

\* logAuditEvent(session.userId, 'TOKEN_REFRESH', ...) and the return of the tokens
LogRefresh(h) ==
    /\ proc.running
    /\ pc[h] = "logRefresh"
    /\ Log(h, AuditRow(req[h].userId, "TOKEN_REFRESH", "AUTH",
                  [ipAddress |-> req[h].ipAddress, success |-> TRUE]),
           Respond([req[h] EXCEPT !.ok = TRUE]))
    /\ issued' = issued \cup {req[h].tokens.refreshToken}
    /\ pc' = [pc EXCEPT ![h] = "done"]
    /\ UNCHANGED <<users, sessions, now, nextToken, nextSessionId, nreq, spent, roles, grants, gate, proc,
                   counted, requests, decided, client>>

(***************************************************************************)
(* logoutUser, called by router.post('/logout') for the identity that      *)
(* authenticateToken has verified.                                         *)
(***************************************************************************)
LogoutMatchAnyOwner(s, userId, token) ==
    s.refreshToken = HashToken(token) /\ s.isActive

\* the where clause of logoutUser's findFirst
LogoutMatch(s, userId, token) ==
    s.userId = userId /\ s.refreshToken = HashToken(token) /\ s.isActive

\* router.post('/logout') up to and including the findFirst of logoutUser
Logout(h, userId, token, ipAddress) ==
    /\ Dispatch(h)
    /\ LET base == [IdleReq EXCEPT !.op = "logout", !.refreshToken = token,
                                   !.ipAddress = ipAddress, !.userId = userId]
           found == {s \in sessions : LogoutMatch(s, userId, token)}
       IN IF token = MissingToken
          THEN /\ pc' = [pc EXCEPT ![h] = "done"]
               /\ req' = [req EXCEPT ![h] = Respond([base EXCEPT !.op = "logout400"])]
          ELSE IF found = {}
          THEN /\ pc' = [pc EXCEPT ![h] = "logLogout"]
               /\ req' = [req EXCEPT ![h] = base]
          ELSE \E s \in found :
               /\ pc' = [pc EXCEPT ![h] = "deactivate"]
               /\ req' = [req EXCEPT ![h] = [base EXCEPT !.sessionId = s.id]]
    /\ UNCHANGED <<users, sessions, auditLog, now, nextToken, nextSessionId, spent, issued, roles, grants, gate, proc,
                   counted, requests, decided, client>>

\* prisma.session.update({where: {id}, data: {isActive: false}})
Deactivate(h) ==
    /\ proc.running
    /\ pc[h] = "deactivate"
    /\ LET rows == {s \in sessions : s.id = req[h].sessionId}
       IN IF rows = {}
          THEN /\ sessions' = sessions
               /\ req' = [req EXCEPT ![h] = Respond([@ EXCEPT !.error = RecordNotFound])]
               /\ pc' = [pc EXCEPT ![h] = "done"]
          ELSE /\ sessions' = (sessions \ rows) \cup
                              {[s EXCEPT !.isActive = FALSE] : s \in rows}
               /\ req' = req
               /\ pc' = [pc EXCEPT ![h] = "logLogout"]
    /\ UNCHANGED <<users, auditLog, now, nextToken, nextSessionId, nreq, spent, issued, roles, grants, gate, proc,
                   counted, requests, decided, client>>

\* logAuditEvent(userId, 'LOGOUT', ...) and the return
LogLogout(h) ==
    /\ proc.running
    /\ pc[h] = "logLogout"
    /\ Log(h, AuditRow(req[h].userId, "LOGOUT", "AUTH",
                  [ipAddress |-> req[h].ipAddress, sessionId |-> req[h].sessionId]),
           Respond([req[h] EXCEPT !.ok = TRUE]))
    /\ pc' = [pc EXCEPT ![h] = "done"]
    /\ UNCHANGED <<users, sessions, now, nextToken, nextSessionId, nreq, spent, issued, roles, grants, gate, proc,
                   counted, requests, decided, client>>

(***************************************************************************)
(* verifyToken and the middleware of middleware/security.ts and            *)
(* middleware/errorHandler.ts.  verifyToken has one await, the findUnique  *)
(* that follows jwt.verify, and the synchronous guards run in the same     *)
(* turn as the callback that receives its result, so a guarded request is  *)
(* one step.  jsonwebtoken compares whole seconds; here iat, exp and the   *)
(* clock have the clock's resolution.                                      *)
(***************************************************************************)
\* the instants at which the service can have signed a token a client still
\* holds: those of this behaviour and the two around the expiry bound
IssueInstants ==
    (0 .. now) \cup {now - ParseJwtExpiration(jwtExpiresIn),
                     now - ParseJwtExpiration(jwtExpiresIn) + 1}

\* for the guards, whose outcome depends on the token through the identity
\* alone: a valid token of each user, a forged one
GuardTokens ==
    {JwtSign(u, jwtSecret, jwtExpiresIn, now) : u \in UserIds}
    \cup {JwtSign(u, ForgedSecret, jwtExpiresIn, now) : u \in UserIds}

\* the access tokens that the last login or refresh of a handler has returned
ReturnedAccessTokens ==
    {req[h].tokens.accessToken :
        h \in {g \in Handlers : pc[g] = "done" /\ req[g].ok
                                /\ req[g].op \in {"login", "refresh"}}}

\* tokens of the service that expire at this instant and at the next
BoundaryTokens ==
    {JwtSign(u, jwtSecret, jwtExpiresIn, t) :
        u \in UserIds,
        t \in {now - ParseJwtExpiration(jwtExpiresIn),
                now - ParseJwtExpiration(jwtExpiresIn) + 1}}

\* the bearer tokens a request can carry
AccessTokens ==
    {JwtSign(u, secret, jwtExpiresIn, t) :
        u \in UserIds \cup {DeletedUser}, secret \in {jwtSecret, ForgedSecret},
        t \in IssueInstants}

JwtVerifyOffByOne(token, secret, t) ==
    IF token.sig # secret THEN "JsonWebTokenError"
    ELSE IF t + 1 >= token.iat + token.expiresIn THEN "TokenExpiredError"
    ELSE "ok"

\* jwt.verify(token, secret): the signature is checked before the expiry
JwtVerify(token, secret, t) ==
    IF token.sig # secret THEN "JsonWebTokenError"
    ELSE IF t >= token.iat + token.expiresIn THEN "TokenExpiredError"
    ELSE "ok"

\* prisma.user.findUnique({where: {id}})
FindUserById(userId) == IF userId \in UserIds THEN userId ELSE NoUser

IdentityOfInitialRoles(u) ==
    [id |-> u, roles |-> {"user"}, permissions |-> {"post:delete:own"},
     isActive |-> TRUE]

\* the NovaSanctumUser verifyToken builds from the row it has read
IdentityOf(u) ==
    [id |-> u,
     roles |-> roles[u],
     permissions |-> UNION {grants[r] : r \in roles[u]},
     isActive |-> users[u].isActive]

InvalidTokenMessage == "Invalid token"

\* the cause of a failing verifyToken, "" when it succeeds
VerifyCause(token, t) ==
    LET v == JwtVerify(token, jwtSecret, t)
        u == FindUserById(token.userId)
    IN IF v # "ok" THEN v
       ELSE IF u = NoUser \/ ~users[u].isActive THEN "User not found or inactive"
       ELSE ""

VerifyTokenSessionBound(token, t) ==
    IF VerifyCause(token, t) # ""
       \/ ~\E s \in sessions : s.userId = token.userId /\ s.isActive
    THEN [ok |-> FALSE, user |-> NoIdentity, error |-> InvalidTokenMessage]
    ELSE [ok |-> TRUE, user |-> IdentityOf(token.userId), error |-> ""]

\* verifyToken: its catch replaces every error by Error('Invalid token')
VerifyToken(token, t) ==
    IF VerifyCause(token, t) # ""
    THEN [ok |-> FALSE, user |-> NoIdentity, error |-> InvalidTokenMessage]
    ELSE [ok |-> TRUE, user |-> IdentityOf(token.userId), error |-> ""]

\* hasPermission, hasRole, hasAnyRole, hasAllPermissions
HasPermission(user, permission) == permission \in user.permissions
HasRole(user, role) == role \in user.roles
HasAnyRoleAll(user, rs) == \A r \in rs : r \in user.roles
HasAnyRole(user, rs) == \E r \in rs : r \in user.roles
HasAllPermissionsAny(user, ps) == \E p \in ps : p \in user.permissions
HasAllPermissions(user, ps) == \A p \in ps : p \in user.permissions

\* the error classes of middleware/errorHandler.ts; statusCode 0 is undefined
AuthenticationError(message) ==
    [class |-> "AuthenticationError", message |-> message, statusCode |-> 401,
     code |-> "AUTHENTICATION_ERROR"]
AuthorizationError(message) ==
    [class |-> "AuthorizationError", message |-> message, statusCode |-> 403,
     code |-> "AUTHORIZATION_ERROR"]
PlainError(message) ==
    [class |-> "Error", message |-> message, statusCode |-> 0, code |-> ""]
DatabaseError(message) ==
    [class |-> "DatabaseError", message |-> message, statusCode |-> 500,
     code |-> "DATABASE_ERROR"]
\* an error thrown by the Prisma client: it has a name, and no statusCode
PrismaError(message) ==
    [class |-> "PrismaClientKnownRequestError", message |-> message, statusCode |-> 0,
     code |-> ""]
\* the subclasses of CustomError
CustomErrorClasses == {"AuthenticationError", "AuthorizationError", "DatabaseError"}

\* authenticateToken: the identity it sets and the error it passes to next
AuthenticateToken(token, t) ==
    IF token = NoAccessToken
    THEN [user |-> NoIdentity, error |-> AuthenticationError("Authentication failed")]
    ELSE IF ~VerifyToken(token, t).ok
    THEN [user |-> NoIdentity, error |-> AuthenticationError("Invalid or expired token")]
    ELSE [user |-> VerifyToken(token, t).user, error |-> NoError]

\* optionalAuth: continues without an identity when there is no valid token
OptionalAuth(token, t) ==
    IF token # NoAccessToken /\ VerifyToken(token, t).ok
    THEN [user |-> VerifyToken(token, t).user, error |-> NoError]
    ELSE [user |-> NoIdentity, error |-> NoError]

\* the authentication stage of the chain; "none": the guard is mounted alone
AuthStage(auth, token, t) ==
    CASE auth = "authenticateToken" -> AuthenticateToken(token, t)
      [] auth = "optionalAuth" -> OptionalAuth(token, t)
      [] OTHER -> [user |-> NoIdentity, error |-> NoError]

RequireRolesForbidden(user, rs) ==
    IF user = NoIdentity THEN AuthorizationError("Insufficient role permissions")
    ELSE IF ~HasAnyRole(user, rs) THEN AuthorizationError("Insufficient role permissions")
    ELSE NoError

\* requireRoles(roles): the error passed to next, NoError for next()
RequireRoles(user, rs) ==
    IF user = NoIdentity THEN AuthenticationError("Authentication required")
    ELSE IF ~HasAnyRole(user, rs) THEN AuthorizationError("Insufficient role permissions")
    ELSE NoError

\* requirePermissions(permissions)
RequirePermissions(user, ps) ==
    IF user = NoIdentity THEN AuthenticationError("Authentication required")
    ELSE IF ~HasAllPermissions(user, ps) THEN AuthorizationError("Insufficient permissions")
    ELSE NoError

\* requireOwnerOrAdmin(ownerIdField): req.params[field] || req.body[field]
RequireOwnerOrAdmin(user, param, body) ==
    LET resourceOwnerId == IF param # "" THEN param ELSE body
    IN IF user = NoIdentity THEN AuthenticationError("Authentication required")
       ELSE IF HasRole(user, "admin") THEN NoError
       ELSE IF user.id = resourceOwnerId THEN NoError
       ELSE AuthorizationError("Access denied")

\* requireResourceOwnership(resourceService, resourceIdField)
RequireResourceOwnership(user, resourceId) ==
    IF user = NoIdentity THEN AuthenticationError("Authentication required")
    ELSE IF HasRole(user, "admin") THEN NoError
    ELSE IF resourceId \notin DOMAIN OwnerOf THEN PlainError("Resource not found")
    ELSE IF OwnerOf[resourceId] = user.id THEN NoError
    ELSE AuthorizationError("Access denied")

\* the authentication stage in front of a guard; "none": the guard is mounted alone
AuthStages == {"authenticateToken", "optionalAuth", "none"}

\* the guards a route can mount.  A request guarded by requireOwnerOrAdmin acts
\* on a resource; its route parameter, when the route has one, names the owner
\* the resource is recorded with, and its body is what the client sent
Guards ==
    {NoGuard}
    \cup {[kind |-> "requireRoles", roles |-> rs] : rs \in SUBSET RoleNames}
    \cup {[kind |-> "requirePermissions", permissions |-> ps] :
             ps \in SUBSET PermissionNames}
    \cup {[kind |-> "requireOwnerOrAdmin", resourceId |-> r, param |-> p, body |-> b] :
             r \in DOMAIN OwnerOf, p \in {"", "owner"}, b \in OwnerIds \cup {""}}
    \cup {[kind |-> "requireResourceOwnership", resourceId |-> r] : r \in ResourceIds}

RunGuard(user, guard) ==
    CASE guard.kind = "requireRoles" -> RequireRoles(user, guard.roles)
      [] guard.kind = "requirePermissions" -> RequirePermissions(user, guard.permissions)
      [] guard.kind = "requireOwnerOrAdmin" ->
            RequireOwnerOrAdmin(user,
                IF guard.param = "owner" THEN OwnerOf[guard.resourceId] ELSE "",
                guard.body)
      [] guard.kind = "requireResourceOwnership" ->
            RequireResourceOwnership(user, guard.resourceId)
      [] OTHER -> NoError

\* handleSpecificErrors: by error.name; a CustomError keeps the name 'Error'
HandleSpecificErrors(error) ==
    CASE error.class = "PrismaClientKnownRequestError" ->
            DatabaseError("Database operation failed")
      [] error.class = "JsonWebTokenError" -> AuthenticationError("Invalid token")
      [] error.class = "TokenExpiredError" -> AuthenticationError("Token expired")
      [] OTHER -> error

\* errorHandler: res.status(handledError.statusCode || 500)
ErrorStatus(error) == IF error.statusCode # 0 THEN error.statusCode ELSE 500

\* isOperationalError: error instanceof CustomError, whose isOperational is true
IsOperationalError(error) == error.class \in CustomErrorClasses

SanitizedMessage == "Internal server error"

\* formatErrorResponse: the message of the response; error.statusCode === 500
\* is false for an error without a statusCode
FormatErrorResponse(error, env) ==
    IF env = "production" /\ error.statusCode = 500 THEN SanitizedMessage
    ELSE error.message

\* errorHandler: the error handled, the response sent, and whether process.exit(1)
\* is called after it
ErrorHandlerOutcome(error, env) ==
    LET handledError == HandleSpecificErrors(error)
    IN [error |-> handledError,
        status |-> ErrorStatus(handledError),
        message |-> FormatErrorResponse(handledError, env),
        exits |-> ~IsOperationalError(handledError) /\ env = "production"]

\* handleSecurityError: the SECURITY_ERROR row; path and method are not modelled
SecurityErrorRow(user, error) ==
    AuditRow(user.id, "SECURITY_ERROR", "AUTH",
        [error |-> error.message, code |-> error.code,
         ipAddress |-> "ip1", userAgent |-> UserAgent])

\* a request through an authentication stage and a guard, up to the route
\* handler or, on an error, through errorHandler.  handleSecurityError starts
\* its audit write before the response is sent; nothing in the core reads the log
GuardedRequest(auth, token, guard) ==
    /\ proc.running
    /\ nreq < MaxRequests
    /\ gate.n < MaxGuarded
    /\ nreq' = nreq + 1
    /\ LET a == AuthStage(auth, token, now)
           e == IF a.error # NoError THEN a.error ELSE RunGuard(a.user, guard)
           out == ErrorHandlerOutcome(e, proc.nodeEnv)
           handled == out.error
       IN /\ gate' = [n |-> gate.n + 1, auth |-> auth, token |-> token, guard |-> guard, at |-> now,
                      cause |-> IF auth = "none" \/ token = NoAccessToken THEN ""
                                ELSE VerifyCause(token, now),
                      verifyError |-> IF auth = "none" \/ token = NoAccessToken THEN ""
                                      ELSE VerifyToken(token, now).error,
                      user |-> a.user,
                      passed |-> e = NoError,
                      error |-> IF e = NoError THEN NoError ELSE handled,
                      status |-> IF e = NoError THEN 0 ELSE out.status,
                      message |-> IF e = NoError THEN "" ELSE out.message]
          /\ auditLog' = IF e # NoError
                            /\ handled.code \in {"AUTHENTICATION_ERROR", "AUTHORIZATION_ERROR"}
                         THEN Append(auditLog, SecurityErrorRow(a.user, handled))
                         ELSE auditLog
          /\ proc' = [proc EXCEPT !.running = ~(e # NoError /\ out.exits)]
    /\ UNCHANGED <<users, sessions, now, nextToken, nextSessionId, pc, req, spent, issued,
                   roles, grants,
                   counted, requests, decided, client>>

\* the errors that reach errorHandler from elsewhere than the guards: the
\* Error of rateLimitMiddleware, and what a resourceService or a route handler
\* throws when the database fails (passed on by next(error))
RaisedErrors ==
    {[origin |-> "rateLimitMiddleware", error |-> PlainError("Rate limit exceeded")],
     [origin |-> "resourceService", error |-> PrismaError("Can't reach database server")]}

\* errorHandler, for a request whose chain has passed the error of raised to next
ErrorHandler(raised) ==
    /\ proc.running
    /\ nreq < MaxRequests
    /\ gate.n < MaxGuarded
    /\ nreq' = nreq + 1
    /\ LET out == ErrorHandlerOutcome(raised.error, proc.nodeEnv)
       IN /\ gate' = [IdleGate EXCEPT !.n = gate.n + 1, !.at = now,
                                      !.guard = [kind |-> raised.origin],
                                      !.error = out.error, !.status = out.status,
                                      !.message = out.message]
          /\ proc' = [proc EXCEPT !.running = ~out.exits]
    /\ UNCHANGED <<users, sessions, auditLog, now, nextToken, nextSessionId, pc, req, spent,
                   issued, roles, grants,
                   counted, requests, decided, client>>

(***************************************************************************)
(* The credential store is written outside the core: an administrator      *)
(* changes a user's role or isActive (controllers/user.controller.ts,      *)
(* updateUser), and the permissions of a role.  A change counts as a       *)
(* request.                                                                *)
(***************************************************************************)
GrantRole(u, r) ==
    /\ proc.running
    /\ nreq < MaxRequests /\ nreq' = nreq + 1
    /\ r \notin roles[u]
    /\ roles' = [roles EXCEPT ![u] = @ \cup {r}]
    /\ UNCHANGED <<users, sessions, auditLog, now, nextToken, nextSessionId, pc, req,
                   spent, issued, grants, gate, proc,
                   counted, requests, decided, client>>

RevokeRole(u, r) ==
    /\ proc.running
    /\ nreq < MaxRequests /\ nreq' = nreq + 1
    /\ r \in roles[u]
    /\ roles' = [roles EXCEPT ![u] = @ \ {r}]
    /\ UNCHANGED <<users, sessions, auditLog, now, nextToken, nextSessionId, pc, req,
                   spent, issued, grants, gate, proc,
                   counted, requests, decided, client>>

GrantPermission(r, p) ==
    /\ proc.running
    /\ nreq < MaxRequests /\ nreq' = nreq + 1
    /\ p \notin grants[r]
    /\ grants' = [grants EXCEPT ![r] = @ \cup {p}]
    /\ UNCHANGED <<users, sessions, auditLog, now, nextToken, nextSessionId, pc, req,
                   spent, issued, roles, gate, proc,
                   counted, requests, decided, client>>

RevokePermission(r, p) ==
    /\ proc.running
    /\ nreq < MaxRequests /\ nreq' = nreq + 1
    /\ p \in grants[r]
    /\ grants' = [grants EXCEPT ![r] = @ \ {p}]
    /\ UNCHANGED <<users, sessions, auditLog, now, nextToken, nextSessionId, pc, req,
                   spent, issued, roles, gate, proc,
                   counted, requests, decided, client>>

DeactivateUser(u) ==
    /\ proc.running
    /\ nreq < MaxRequests /\ nreq' = nreq + 1
    /\ users[u].isActive
    /\ users' = [users EXCEPT ![u].isActive = FALSE]
    /\ UNCHANGED <<sessions, auditLog, now, nextToken, nextSessionId, pc, req,
                   spent, issued, roles, grants, gate, proc,
                   counted, requests, decided, client>>

(***************************************************************************)
(* The audit sink fails: prisma.auditLog.create rejects.  logAuditEvent    *)
(* has no catch, so the rejection leaves the service method through its    *)
(* catch, which rethrows it, and the route answers from its own catch.     *)
(* What the method wrote before the audit write stays written.             *)
(***************************************************************************)
AuditSteps ==
    {"logNotFound", "logLocked", "logInvalid", "logLogin", "logIpMismatch",
     "logRefresh", "logLogout"}
AuditSinkError == "PrismaClientKnownRequestError"

AuditSinkFails(h) ==
    /\ proc.running
    /\ pc[h] \in AuditSteps
    /\ req' = [req EXCEPT ![h] = Respond([@ EXCEPT !.ok = FALSE, !.error = AuditSinkError])]
    /\ pc' = [pc EXCEPT ![h] = "done"]
    /\ UNCHANGED <<users, sessions, auditLog, now, nextToken, nextSessionId, nreq, spent,
                   issued, roles, grants, gate, proc,
                   counted, requests, decided, client>>

(***************************************************************************)
(* Background maintenance and the clock.                                   *)
(***************************************************************************)
CleanupExpiredSessionsInclusive ==
    /\ proc.running
    /\ \E s \in sessions : s.expiresAt <= now
    /\ sessions' = {s \in sessions : ~(s.expiresAt <= now)}
    /\ UNCHANGED <<users, auditLog, now, nextToken, nextSessionId, pc, req, nreq, spent, issued, roles, grants, gate, proc,
                   counted, requests, decided, client>>

\* cleanupExpiredSessions: deleteMany({where: {expiresAt: {lt: now}}})
CleanupExpiredSessions ==
    /\ proc.running
    /\ \E s \in sessions : s.expiresAt < now
    /\ sessions' = {s \in sessions : ~(s.expiresAt < now)}
    /\ UNCHANGED <<users, auditLog, now, nextToken, nextSessionId, pc, req, nreq, spent, issued, roles, grants, gate, proc,
                   counted, requests, decided, client>>

\* getSecurityStats: the four counts.  The rows of the audit log carry no
\* timestamp here; the 24 hours of failedLogins24h span every behaviour
GetSecurityStats ==
    [totalUsers |-> Cardinality(DOMAIN users),
     activeSessions |-> Cardinality({s \in sessions : s.isActive}),
     failedLogins24h |->
        Cardinality({i \in 1 .. Len(auditLog) : auditLog[i].action = "LOGIN_FAILED"}),
     lockedAccounts |-> Cardinality({u \in DOMAIN users : users[u].isLocked})]

\* the timer of the statistics fires: logger.info('Security statistics:', stats)
SecurityStats ==
    /\ proc.running
    /\ proc' = [proc EXCEPT !.stats = GetSecurityStats]
    /\ UNCHANGED <<users, sessions, auditLog, now, nextToken, nextSessionId, pc, req, nreq,
                   spent, issued, roles, grants, gate,
                   counted, requests, decided, client>>

Propagated(p, job) == [p EXCEPT !.running = FALSE]

\* the catch of cleanupExpiredSessions and the catch of each timer callback:
\* logger.error, and nothing is rethrown
CaughtAndLogged(p, job) == [p EXCEPT !.jobError = [job |-> job, at |-> now]]

\* the timer of job fires and the store rejects the job's query
JobFails(job) ==
    /\ proc.running
    /\ proc' = CaughtAndLogged(proc, job)
    /\ UNCHANGED <<users, sessions, auditLog, now, nextToken, nextSessionId, pc, req, nreq,
                   spent, issued, roles, grants, gate,
                   counted, requests, decided, client>>

Tick ==
    /\ now < MaxTime
    /\ now' = now + 1
    /\ UNCHANGED <<users, sessions, auditLog, nextToken, nextSessionId, pc, req, nreq, spent, issued, roles, grants, gate, proc,
                   counted, requests, decided, client>>

(***************************************************************************)
(* rateLimitMiddleware (middleware/security.ts).  One instance, with its   *)
(* Map requests; the Error it passes to next reaches errorHandler.         *)
(***************************************************************************)
RateKeyGlobal(ip) == "*"

\* const key = req.ip
RateKey(ip) == ip

\* requests.get(key).filter(timestamp => timestamp > windowStart), [] for a new key
RecentRequests(key, windowStart) ==
    IF key \in DOMAIN requests
    THEN SelectSeq(requests[key], LAMBDA timestamp : timestamp > windowStart)
    ELSE <<>>

\* requests.set(key, list)
SetRequests(key, list) ==
    [k \in DOMAIN requests \cup {key} |-> IF k = key THEN list ELSE requests[k]]

\* the middleware serves a request from address ip
RateLimitMiddleware(ip) ==
    /\ proc.running
    /\ nreq < MaxRequests
    /\ nreq' = nreq + 1
    /\ LET key == RateKey(ip)
           userRequests == RecentRequests(key, now - windowMs)
           out == ErrorHandlerOutcome(PlainError("Rate limit exceeded"), proc.nodeEnv)
       IN IF Len(userRequests) >= max
          THEN /\ requests' = SetRequests(key, userRequests)
               /\ decided' = Append(decided, [ip |-> ip, at |-> now, admitted |-> FALSE])
               /\ gate' = [IdleGate EXCEPT !.n = gate.n + 1, !.at = now,
                                           !.guard = [kind |-> "rateLimitMiddleware"],
                                           !.error = out.error, !.status = out.status,
                                           !.message = out.message]
               /\ proc' = [proc EXCEPT !.running = ~out.exits]
          ELSE /\ requests' = SetRequests(key, Append(userRequests, now))
               /\ decided' = Append(decided, [ip |-> ip, at |-> now, admitted |-> TRUE])
               /\ gate' = [IdleGate EXCEPT !.n = gate.n + 1, !.at = now,
                                           !.guard = [kind |-> "rateLimitMiddleware"],
                                           !.passed = TRUE]
               /\ proc' = proc
    /\ UNCHANGED <<users, sessions, auditLog, now, nextToken, nextSessionId, pc, req, spent,
                   issued, roles, grants, counted, client>>

(***************************************************************************)
(* The frontend NovaSanctumService (frontend/src/services).  A method that *)
(* awaits fetch writes its state after the response only, so it is one     *)
(* step, taken when the response arrives.  sessionWorks is whether         *)
(* sessionStorage.setItem succeeds during the call.                        *)
(***************************************************************************)
\* getSecureStorage: sessionStorage.getItem(key) || localStorage.getItem(key)
GetSecureStorage(c, key) ==
    IF c.sessionStorage[key] # Null THEN c.sessionStorage[key] ELSE c.localStorage[key]

\* setSecureStorage: sessionStorage.setItem, localStorage.setItem when it throws
SetSecureStorage(c, key, value, sessionWorks) ==
    IF sessionWorks
    THEN [c EXCEPT !.sessionStorage[key] = value]
    ELSE [c EXCEPT !.localStorage[key] = value]

\* clearSecureStorage: removeItem on both storages, for every key
ClearSecureStorage(c) ==
    [c EXCEPT !.sessionStorage = EmptyStorage, !.localStorage = EmptyStorage]

\* JSON.stringify(user), and JSON.parse of a stored item
JsonStringify(user) == "{" \o user \o "}"
JsonParse(item) == CHOOSE user \in ClientUsers : JsonStringify(user) = item

\* expiresAt.toString(), and parseInt of a stored item
ExpiryItems == {t + e : t \in 0 .. MaxTime, e \in ExpiresIns}
ParseInt(item) == CHOOSE n \in ExpiryItems : ToString(n) = item

\* saveToSecureStorage: each field of authState that is truthy is written
SaveToSecureStorage(c, sessionWorks) ==
    LET a == c.authState
        c1 == IF a.accessToken # Null
              THEN SetSecureStorage(c, "ACCESS_TOKEN", a.accessToken, sessionWorks) ELSE c
        c2 == IF a.refreshToken # Null
              THEN SetSecureStorage(c1, "REFRESH_TOKEN", a.refreshToken, sessionWorks) ELSE c1
        c3 == IF a.user # Null
              THEN SetSecureStorage(c2, "USER_DATA", JsonStringify(a.user), sessionWorks) ELSE c2
    IN IF a.expiresAt # NoExpiry
       THEN SetSecureStorage(c3, "EXPIRES_AT", ToString(a.expiresAt), sessionWorks) ELSE c3

\* initializeFromStorage, run by the constructor of a new instance
InitializeFromStorage(c) ==
    LET accessToken == GetSecureStorage(c, "ACCESS_TOKEN")
        refreshToken == GetSecureStorage(c, "REFRESH_TOKEN")
        userData == GetSecureStorage(c, "USER_DATA")
        expiresAt == GetSecureStorage(c, "EXPIRES_AT")
        fresh == [c EXCEPT !.authState = NoAuthState]
    IN IF accessToken # Null /\ refreshToken # Null /\ userData # Null /\ expiresAt # Null
       THEN IF ParseInt(expiresAt) > now
            THEN [fresh EXCEPT !.authState =
                     [isAuthenticated |-> TRUE, user |-> JsonParse(userData),
                      accessToken |-> accessToken, refreshToken |-> refreshToken,
                      expiresAt |-> ParseInt(expiresAt)]]
            ELSE ClearSecureStorage(fresh)
       ELSE fresh

\* the frame of the browser's steps; each counts as a request
ClientFrame ==
    /\ nreq < MaxRequests
    /\ nreq' = nreq + 1
    /\ UNCHANGED <<users, sessions, auditLog, now, nextToken, nextSessionId, pc, req, spent,
                   issued, roles, grants, gate, proc, counted, requests, decided>>

\* authenticateUser: the backend has answered with a user and tokens
ClientAuthenticate(user, accessToken, refreshToken, expiresIn, sessionWorks) ==
    /\ ClientFrame
    /\ client' = SaveToSecureStorage(
                    [client EXCEPT !.authState =
                        [isAuthenticated |-> TRUE, user |-> user,
                         accessToken |-> accessToken, refreshToken |-> refreshToken,
                         expiresAt |-> now + expiresIn],
                                   !.cleared = Null],
                    sessionWorks)

\* refreshAccessToken: the backend has answered with an access token
ClientRefresh(accessToken, expiresIn, sessionWorks) ==
    /\ ClientFrame
    /\ client.authState.refreshToken # Null
    /\ client' = SaveToSecureStorage(
                    [client EXCEPT !.authState.accessToken = accessToken,
                                   !.authState.expiresAt = now + expiresIn,
                                   !.cleared = Null],
                    sessionWorks)

\* logout, also as called by refreshAccessToken when the refresh has failed
ClientLogout ==
    /\ ClientFrame
    /\ client' = ClearSecureStorage([client EXCEPT !.authState = NoAuthState])

\* setAccessToken(token)
SetAccessToken(token, sessionWorks) ==
    /\ ClientFrame
    /\ client' = SaveToSecureStorage(
                    [client EXCEPT !.authState.accessToken = token, !.cleared = Null],
                    sessionWorks)

\* clearAccessToken()
ClearAccessToken(sessionWorks) ==
    /\ ClientFrame
    /\ client' = SaveToSecureStorage(
                    [client EXCEPT !.authState.accessToken = Null,
                                   !.cleared = client.authState.accessToken],
                    sessionWorks)

\* updateUserData(userData): the fields of userData replace the user's
UpdateUserData(userData, sessionWorks) ==
    /\ ClientFrame
    /\ client' = SaveToSecureStorage([client EXCEPT !.authState.user = userData],
                                     sessionWorks)

\* the page is loaded again: a new NovaSanctumService is constructed
NewInstance ==
    /\ ClientFrame
    /\ client' = InitializeFromStorage(client)

Next ==
    \/ \E h \in Handlers, email \in Emails, password \in Passwords, ip \in ClientIps :
          Login(h, email, password, ip)
    \/ \E h \in Handlers : LogFailure(h)
    \/ \E h \in Handlers : IncrementFailed(h)
    \/ \E h \in Handlers : LockAccount(h)
    \/ \E h \in Handlers : ResetFailedLoginAttempts(h)
    \/ \E h \in Handlers : CreateSession(h)
    \/ \E h \in Handlers : UpdateLastLogin(h)
    \/ \E h \in Handlers : LogLogin(h)
    \/ \E h \in Handlers, token \in PresentableTokens, ip \in RefreshIps :
          Refresh(h, token, ip)
    \/ \E h \in Handlers : LogIpMismatch(h)
    \/ \E h \in Handlers : UpdateSession(h)
    \/ \E h \in Handlers : LogRefresh(h)
    \/ \E h \in Handlers, userId \in UserIds \cup {OtherUser}, token \in PresentableTokens,
          ip \in ClientIps :
          Logout(h, userId, token, ip)
    \/ \E h \in Handlers : Deactivate(h)
    \/ \E h \in Handlers : LogLogout(h)
    \/ \E auth \in AuthStages, token \in AccessTokens \cup {NoAccessToken}, guard \in Guards :
          GuardedRequest(auth, token, guard)
    \/ \E u \in UserIds, r \in RoleNames : GrantRole(u, r)
    \/ \E u \in UserIds, r \in RoleNames : RevokeRole(u, r)
    \/ \E r \in RoleNames, p \in PermissionNames : GrantPermission(r, p)
    \/ \E r \in RoleNames, p \in PermissionNames : RevokePermission(r, p)
    \/ \E u \in UserIds : DeactivateUser(u)
    \/ \E raised \in RaisedErrors : ErrorHandler(raised)
    \/ \E h \in Handlers : AuditSinkFails(h)
    \/ CleanupExpiredSessions
    \/ SecurityStats
    \/ \E job \in Jobs : JobFails(job)
    \/ \E ip \in RequestIps : RateLimitMiddleware(ip)
    \/ \E user \in ClientUsers, accessToken \in ClientAccessTokens,
          refreshToken \in ClientRefreshTokens, expiresIn \in ExpiresIns,
          sessionWorks \in BOOLEAN :
          ClientAuthenticate(user, accessToken, refreshToken, expiresIn, sessionWorks)
    \/ \E accessToken \in ClientAccessTokens, expiresIn \in ExpiresIns,
          sessionWorks \in BOOLEAN :
          ClientRefresh(accessToken, expiresIn, sessionWorks)
    \/ ClientLogout
    \/ \E token \in ClientAccessTokens, sessionWorks \in BOOLEAN :
          SetAccessToken(token, sessionWorks)
    \/ \E sessionWorks \in BOOLEAN : ClearAccessToken(sessionWorks)
    \/ \E userData \in ClientUsers, sessionWorks \in BOOLEAN :
          UpdateUserData(userData, sessionWorks)
    \/ NewInstance
    \/ Tick

Spec == Init /\ [][Next]_vars

(***************************************************************************)
(* The login requests alone.  refreshToken, logoutUser and                 *)
(* cleanupExpiredSessions neither read nor write prisma.user, and no login *)
(* step reads prisma.session or prisma.auditLog.                           *)
(***************************************************************************)
LoginNext ==
    \/ \E h \in Handlers, email \in Emails, password \in Passwords, ip \in ClientIps :
          Login(h, email, password, ip)
    \/ \E h \in Handlers : LogFailure(h)
    \/ \E h \in Handlers : IncrementFailed(h)
    \/ \E h \in Handlers : LockAccount(h)
    \/ \E h \in Handlers : ResetFailedLoginAttempts(h)
    \/ \E h \in Handlers : CreateSession(h)
    \/ \E h \in Handlers : UpdateLastLogin(h)
    \/ \E h \in Handlers : LogLogin(h)
    \/ Tick

LoginSpec == InitIn("production") /\ [][LoginNext]_vars

(***************************************************************************)
(* The session registry: logins that present valid credentials, refresh,   *)
(* logout, the purge of expired sessions and the clock.  A failing login   *)
(* neither reads nor writes prisma.session.                                *)
(***************************************************************************)
SessionNext ==
    \/ \E h \in Handlers, u \in UserIds, ip \in ClientIps :
          Login(h, EmailOf[u], PlainPasswordOf[u], ip)
    \/ \E h \in Handlers : ResetFailedLoginAttempts(h)
    \/ \E h \in Handlers : CreateSession(h)
    \/ \E h \in Handlers : UpdateLastLogin(h)
    \/ \E h \in Handlers : LogLogin(h)
    \/ \E h \in Handlers, token \in PresentableTokens, ip \in RefreshIps :
          Refresh(h, token, ip)
    \/ \E h \in Handlers : LogIpMismatch(h)
    \/ \E h \in Handlers : UpdateSession(h)
    \/ \E h \in Handlers : LogRefresh(h)
    \/ \E h \in Handlers, userId \in UserIds, token \in PresentableTokens, ip \in ClientIps :
          Logout(h, userId, token, ip)
    \/ \E h \in Handlers : Deactivate(h)
    \/ \E h \in Handlers : LogLogout(h)
    \/ CleanupExpiredSessions
    \/ Tick

SessionSpec == InitIn("production") /\ [][SessionNext]_vars

(***************************************************************************)
(* Token verification against the session registry: logins that present   *)
(* valid credentials, refresh and logout from the address of the login,    *)
(* the purge of expired sessions, the deactivation of a user, and requests *)
(* that pass authenticateToken alone (as GET /me does).                    *)
(***************************************************************************)
VerifyNext ==
    \/ \E h \in Handlers, u \in UserIds, ip \in ClientIps :
          Login(h, EmailOf[u], PlainPasswordOf[u], ip)
    \/ \E h \in Handlers : ResetFailedLoginAttempts(h)
    \/ \E h \in Handlers : CreateSession(h)
    \/ \E h \in Handlers : UpdateLastLogin(h)
    \/ \E h \in Handlers : LogLogin(h)
    \/ \E h \in Handlers, token \in issued, ip \in ClientIps : Refresh(h, token, ip)
    \/ \E h \in Handlers : UpdateSession(h)
    \/ \E h \in Handlers : LogRefresh(h)
    \/ \E h \in Handlers, userId \in UserIds, token \in issued, ip \in ClientIps :
          Logout(h, userId, token, ip)
    \/ \E h \in Handlers : Deactivate(h)
    \/ \E h \in Handlers : LogLogout(h)
    \/ \E token \in ReturnedAccessTokens \cup BoundaryTokens :
          GuardedRequest("authenticateToken", token, NoGuard)
    \/ \E u \in UserIds : DeactivateUser(u)
    \/ CleanupExpiredSessions
    \/ Tick

VerifySpec == InitIn("production") /\ [][VerifyNext]_vars

(***************************************************************************)
(* Token verification against the credential store: the changes of the     *)
(* store, the clock, and requests that pass authenticateToken alone.       *)
(***************************************************************************)
TokenNext ==
    \/ \E token \in AccessTokens \cup {NoAccessToken} :
          GuardedRequest("authenticateToken", token, NoGuard)
    \/ \E u \in UserIds, r \in RoleNames : GrantRole(u, r)
    \/ \E u \in UserIds, r \in RoleNames : RevokeRole(u, r)
    \/ \E r \in RoleNames, p \in PermissionNames : GrantPermission(r, p)
    \/ \E r \in RoleNames, p \in PermissionNames : RevokePermission(r, p)
    \/ \E u \in UserIds : DeactivateUser(u)
    \/ Tick

TokenSpec == InitIn("production") /\ [][TokenNext]_vars

(***************************************************************************)
(* Route guards: requests through every authentication stage and guard,    *)
(* and the changes of the credential store.                                *)
(***************************************************************************)
GuardNext ==
    \/ \E auth \in AuthStages, token \in GuardTokens \cup {NoAccessToken}, guard \in Guards :
          GuardedRequest(auth, token, guard)
    \/ \E u \in UserIds, r \in RoleNames : GrantRole(u, r)
    \/ \E u \in UserIds, r \in RoleNames : RevokeRole(u, r)
    \/ \E r \in RoleNames, p \in PermissionNames : GrantPermission(r, p)
    \/ \E r \in RoleNames, p \in PermissionNames : RevokePermission(r, p)
    \/ \E u \in UserIds : DeactivateUser(u)

GuardSpec == InitIn("production") /\ [][GuardNext]_vars

(***************************************************************************)
(* The audit log: every operation of the core that writes it, with a sink  *)
(* that works and a sink that fails, and the purge of expired sessions.    *)
(* The requests are served one after the other, by the first handler.      *)
(***************************************************************************)
AuditNext ==
    \/ \E email \in Emails \ {""}, password \in Passwords, ip \in ClientIps :
          Login("h1", email, password, ip)
    \/ \E h \in Handlers : LogFailure(h)
    \/ \E h \in Handlers : IncrementFailed(h)
    \/ \E h \in Handlers : LockAccount(h)
    \/ \E h \in Handlers : ResetFailedLoginAttempts(h)
    \/ \E h \in Handlers : CreateSession(h)
    \/ \E h \in Handlers : UpdateLastLogin(h)
    \/ \E h \in Handlers : LogLogin(h)
    \/ \E token \in issued, ip \in RefreshIps : Refresh("h1", token, ip)
    \/ \E h \in Handlers : LogIpMismatch(h)
    \/ \E h \in Handlers : UpdateSession(h)
    \/ \E h \in Handlers : LogRefresh(h)
    \/ \E userId \in UserIds, token \in issued, ip \in ClientIps :
          Logout("h1", userId, token, ip)
    \/ \E h \in Handlers : Deactivate(h)
    \/ \E h \in Handlers : LogLogout(h)
    \/ \E token \in GuardTokens, guard \in {NoGuard, [kind |-> "requireRoles", roles |-> {"admin"}]} :
          GuardedRequest("authenticateToken", token, guard)
    \/ \E h \in Handlers : AuditSinkFails(h)
    \/ CleanupExpiredSessions
    \/ Tick

AuditSpec == InitIn("production") /\ [][AuditNext]_vars

(***************************************************************************)
(* errorHandler in every NODE_ENV: requests that authenticateToken or a    *)
(* guard rejects, requests whose chain raises another error, and logins,   *)
(* served one after the other.                                             *)
(***************************************************************************)
ErrorNext ==
    \/ \E email \in Emails \ {""}, ip \in ClientIps : Login("h1", email, "P1", ip)
    \/ \E h \in Handlers : LogFailure(h)
    \/ \E h \in Handlers : ResetFailedLoginAttempts(h)
    \/ \E h \in Handlers : CreateSession(h)
    \/ \E h \in Handlers : UpdateLastLogin(h)
    \/ \E h \in Handlers : LogLogin(h)
    \/ \E token \in GuardTokens \cup {NoAccessToken},
          guard \in {NoGuard, [kind |-> "requireRoles", roles |-> {"admin"}]}
                    \cup {[kind |-> "requireResourceOwnership", resourceId |-> r] :
                             r \in ResourceIds} :
          GuardedRequest("authenticateToken", token, guard)
    \/ \E raised \in RaisedErrors : ErrorHandler(raised)

ErrorSpec == Init /\ [][ErrorNext]_vars

(***************************************************************************)
(* The timers of initializeSecurity beside the requests: logins that       *)
(* present valid credentials and refreshes, served one after the other,    *)
(* the two jobs, their failures and the clock.                             *)
(***************************************************************************)
TimerNext ==
    \/ \E u \in UserIds, ip \in ClientIps : Login("h1", EmailOf[u], PlainPasswordOf[u], ip)
    \/ \E h \in Handlers : ResetFailedLoginAttempts(h)
    \/ \E h \in Handlers : CreateSession(h)
    \/ \E h \in Handlers : UpdateLastLogin(h)
    \/ \E h \in Handlers : LogLogin(h)
    \/ \E token \in issued, ip \in ClientIps : Refresh("h1", token, ip)
    \/ \E h \in Handlers : UpdateSession(h)
    \/ \E h \in Handlers : LogRefresh(h)
    \/ CleanupExpiredSessions
    \/ SecurityStats
    \/ \E job \in Jobs : JobFails(job)
    \/ Tick

TimerSpec == InitIn("production") /\ [][TimerNext]_vars

(***************************************************************************)
(* What the requests have done.                                            *)
(***************************************************************************)
IsLogin(h) == req[h].op = "login"
Returned(h) == pc[h] = "done"
FailedLogin(h) == IsLogin(h) /\ Returned(h) /\ ~req[h].ok
SucceededLogin(h) == IsLogin(h) /\ Returned(h) /\ req[h].ok
CorrectPassword(h) ==
    /\ req[h].userId # NoUser
    /\ req[h].password = PlainPasswordOf[req[h].userId]
LockPending(u) == \E h \in Handlers : pc[h] = "lock" /\ req[h].userId = u
\* the step is LockAccount(h)
LockStep(h) == pc[h] = "lock" /\ pc'[h] = "logInvalid"

(***************************************************************************)
(* C1.  Once the failure counter of an account has reached                 *)
(* maxLoginAttempts (and the lock update of the attempt that brought it    *)
(* there has run) the account is locked; the lock update sets isLocked and *)
(* lockedUntil = now + lockoutDurationMs; and a login attempt whose lookup *)
(* finds the account locked with lockedUntil still in the future never     *)
(* takes the success path and fails, also with the correct password.       *)
(***************************************************************************)
C1_Locked ==
    /\ \A u \in UserIds :
          (users[u].failedLoginAttempts >= maxLoginAttempts /\ ~LockPending(u))
             => (users[u].isLocked /\ users[u].lockedUntil >= 0)
    /\ \A h \in Handlers :
          (IsLogin(h) /\ req[h].lockSeen = "cooling")
             => (pc[h] \in {"logLocked", "done"} /\ ~req[h].ok
                 /\ (Returned(h) => req[h].response.status = 401))

C1_LockoutAfterThreshold ==
    [][ /\ C1_Locked'
        /\ \A h \in Handlers :
              LockStep(h) =>
                 /\ users'[req[h].userId].isLocked
                 /\ users'[req[h].userId].lockedUntil = now + lockoutDurationMs ]_vars

\* a login with the correct password has failed on the locked account
C1_Witness ==
    \E h \in Handlers :
       /\ FailedLogin(h) /\ CorrectPassword(h) /\ req[h].lockSeen = "cooling"
       /\ users[req[h].userId].isLocked
       /\ users[req[h].userId].failedLoginAttempts = maxLoginAttempts

(***************************************************************************)
(* C2.  Lazy expiry: a login with the correct password whose lookup finds  *)
(* the account locked with a lockedUntil that is no longer in the future   *)
(* is treated as a login on an unlocked account, and succeeds.             *)
(***************************************************************************)
C2_LazyLockExpiry ==
    \A h \in Handlers :
       (IsLogin(h) /\ Returned(h) /\ CorrectPassword(h) /\ req[h].lockSeen = "over")
          => req[h].ok

(***************************************************************************)
(* C3, as claimed.  When a successful login returns, the user's counter is *)
(* 0, the lock flag is false and lockedUntil is null.                      *)
(***************************************************************************)
ResetState(u) ==
    /\ users[u].failedLoginAttempts = 0
    /\ ~users[u].isLocked
    /\ users[u].lockedUntil = -1
\* the step is LogLogin(h): authenticateUser returns the tokens
LoginReturn(h) == pc[h] = "logLogin" /\ pc'[h] = "done"
PastReset(h) == IsLogin(h) /\ pc[h] \in {"createSession", "updateLastLogin", "logLogin"}

C3_ResetAtReturn ==
    [][ \A h \in Handlers : LoginReturn(h) => ResetState(req[h].userId)' ]_vars

(***************************************************************************)
(* C3, amended.  A login that succeeds has reset the row, whatever the     *)
(* counter was: from its reset until it returns the counter is 0, the lock *)
(* flag false and lockedUntil null, unless another request has recorded a  *)
(* failure on the account after the reset.                                 *)
(***************************************************************************)
C3_ResetUnlessRaced ==
    [][ \A h \in Handlers :
           /\ (PastReset(h) /\ ~req[h].raced => ResetState(req[h].userId))'
           /\ (LoginReturn(h) /\ ~req'[h].raced) => ResetState(req[h].userId)' ]_vars

\* a login has succeeded after a failed one, and the row is reset
C3_Witness ==
    \E h \in Handlers :
       /\ SucceededLogin(h) /\ ~req[h].raced
       /\ ResetState(req[h].userId)
       /\ \E i, j \in 1 .. Len(auditLog) :
             /\ i < j
             /\ auditLog[i].action = "LOGIN_FAILED"
             /\ auditLog[i].details.reason = "Invalid password"
             /\ auditLog[j].action = "LOGIN"

(***************************************************************************)
(* C4.  authenticateUser throws one and the same error for every failure   *)
(* cause: any two failed logins carry the same error.                      *)
(***************************************************************************)
C4_OneOpaqueError ==
    \A h, g \in Handlers :
       (FailedLogin(h) /\ FailedLogin(g)) => req[h].error = req[g].error

(***************************************************************************)
(* C5.  The login route answers every failed authentication with 401 and   *)
(* 'Invalid credentials': any two failed logins, whatever their causes,    *)
(* get the same response.                                                  *)
(***************************************************************************)
C5_UniformLoginFailure ==
    \A h, g \in Handlers :
       (FailedLogin(h) /\ FailedLogin(g)) =>
          /\ req[h].response = req[g].response
          /\ req[h].response = [status |-> 401, error |-> "Invalid credentials"]

\* the true cause of a failed login
TrueReason(h) ==
    IF req[h].userId = NoUser THEN "User not found"
    ELSE IF req[h].lockSeen # "none" THEN "Account locked"
    ELSE "Invalid password"

\* one login has failed on the locked account, another on a wrong password
C5_Witness ==
    \E h, g \in Handlers :
       /\ FailedLogin(h) /\ TrueReason(h) = "Account locked"
       /\ FailedLogin(g) /\ TrueReason(g) = "Invalid password"
       /\ req[h].response = req[g].response

(***************************************************************************)
(* C6.  A failed login has created exactly one audit row: a LOGIN_FAILED   *)
(* row, in the audit log, whose details carry the true reason.             *)
(***************************************************************************)
C6_OneAuditRowPerFailure ==
    \A h \in Handlers :
       FailedLogin(h) =>
          /\ Len(req[h].logged) = 1
          /\ req[h].logged[1].action = "LOGIN_FAILED"
          /\ req[h].logged[1].details.email = req[h].email
          /\ req[h].logged[1].details.reason = TrueReason(h)
          /\ \E i \in 1 .. Len(auditLog) : auditLog[i] = req[h].logged[1]

\* a login with an unknown email has failed and left its row
C6_Witness ==
    \E h \in Handlers :
       /\ FailedLogin(h) /\ req[h].userId = NoUser
       /\ \E i \in 1 .. Len(auditLog) :
             /\ auditLog[i].action = "LOGIN_FAILED"
             /\ auditLog[i].details.reason = "User not found"
             /\ auditLog[i].details.email = req[h].email

RefreshArrives(h) == Chosen(h) /\ nreq' = nreq + 1 /\ req'[h].op = "refresh"
\* the lookup of the arriving refresh request found a session
RefreshAccepted(h) == pc'[h] \in {"rotate", "logIpMismatch"}
\* the arriving refresh request is answered 'Invalid or expired refresh token'
RefreshRejected(h) ==
    /\ pc'[h] = "done" /\ ~req'[h].ok
    /\ req'[h].error = RefreshMessage
    /\ req'[h].response.status = 401
\* the step is the rotation of UpdateSession(h): the new tokens are issued
RotationStep(h) == pc[h] = "rotate" /\ pc'[h] = "logRefresh"
Resolves(token) == \E s \in sessions : s.refreshToken = HashToken(token)

(***************************************************************************)
(* C8.  Refresh tokens are single-use: a raw refresh token that a rotation *)
(* has replaced resolves to no session, and a refresh request that         *)
(* presents it afterwards is rejected with 'Invalid or expired refresh     *)
(* token'.                                                                 *)
(***************************************************************************)
C8_RefreshTokenSingleUse ==
    [][ /\ \A t \in spent' : ~Resolves(t)'
        /\ \A h \in Handlers :
              (RefreshArrives(h) /\ req'[h].refreshToken \in spent)
                 => RefreshRejected(h) ]_vars

\* a refresh presenting a replaced token has been rejected while the session
\* it was issued for is alive under its new token
C8_Witness ==
    \E h \in Handlers :
       /\ Returned(h) /\ req[h].op = "refresh" /\ ~req[h].ok
       /\ req[h].error = RefreshMessage
       /\ req[h].refreshToken \in spent
       /\ \E s \in sessions : s.isActive /\ s.expiresAt > now
       /\ \A g \in Handlers : Free(g)

(***************************************************************************)
(* C9.  refreshToken issues tokens only for a session that is active and   *)
(* unexpired at the moment it issues them (the rotation).                  *)
(***************************************************************************)
C9_RefreshOnlyLiveSession ==
    [][ \A h \in Handlers :
           RotationStep(h) =>
              \E s \in sessions :
                 s.id = req[h].sessionId /\ s.isActive /\ s.expiresAt > now ]_vars

(***************************************************************************)
(* C10.  The expiry bound is exclusive: an arriving refresh request is     *)
(* accepted exactly when an active session holding the hash of its token   *)
(* has expiresAt strictly after now; at now = expiresAt, and later, it is  *)
(* rejected as expired.                                                    *)
(***************************************************************************)
C10_ExpiryExclusive ==
    [][ \A h \in Handlers :
           RefreshArrives(h) =>
              LET live == {s \in sessions :
                             s.refreshToken = HashToken(req'[h].refreshToken) /\ s.isActive}
              IN /\ RefreshAccepted(h) <=> \E s \in live : now < s.expiresAt
                 /\ (\A s \in live : s.expiresAt <= now) => RefreshRejected(h) ]_vars

\* a refresh has been rejected at the very instant its session expires
C10_Witness ==
    \E h \in Handlers :
       /\ Returned(h) /\ req[h].op = "refresh" /\ ~req[h].ok
       /\ req[h].error = RefreshMessage
       /\ \E s \in sessions :
             /\ s.refreshToken = HashToken(req[h].refreshToken)
             /\ s.isActive
             /\ s.expiresAt = now

(***************************************************************************)
(* What the verifications have done.                                       *)
(***************************************************************************)
\* the step is a guarded request whose authentication stage calls verifyToken
VerifyStep ==
    /\ gate'.n = gate.n + 1
    /\ gate'.auth # "none"
    /\ gate'.token # NoAccessToken
\* the last guarded request called verifyToken
Verified == gate.n > 0 /\ gate.auth # "none" /\ gate.token # NoAccessToken
\* token was signed by the service for a user of the store
SignedForUser(token) == token.sig = jwtSecret /\ token.userId \in UserIds
Unexpired(token, t) == t < token.iat + token.expiresIn

(***************************************************************************)
(* C11.  Round trip: verifyToken applied to an unexpired access token that *)
(* the service has signed for an existing, active user u returns an        *)
(* identity whose id is u.                                                 *)
(***************************************************************************)
C11_IssueVerifyRoundTrip ==
    [][ (/\ VerifyStep
         /\ SignedForUser(gate'.token)
         /\ Unexpired(gate'.token, now)
         /\ users[gate'.token.userId].isActive)
           => (gate'.user # NoIdentity /\ gate'.user.id = gate'.token.userId) ]_vars

\* the access token that a login has returned has been verified
C11_Witness ==
    /\ Verified /\ gate.passed
    /\ \E h \in Handlers :
          /\ SucceededLogin(h)
          /\ req[h].tokens.accessToken = gate.token
          /\ gate.user.id = req[h].userId

(***************************************************************************)
(* C12.  verifyToken returns the roles and permissions the store holds at  *)
(* the verification, not those at issuance, and rejects the token of a     *)
(* user that has been deactivated.                                         *)
(***************************************************************************)
C12_LiveRolesAndPermissions ==
    [][ VerifyStep =>
          LET u == gate'.token.userId
          IN /\ gate'.user # NoIdentity =>
                   /\ u \in UserIds
                   /\ users[u].isActive
                   /\ gate'.user.roles = roles[u]
                   /\ gate'.user.permissions = UNION {grants[r] : r \in roles[u]}
             /\ (u \in UserIds /\ ~users[u].isActive) => ~gate'.passed ]_vars

\* a token issued at the first instant is verified later, after the user has
\* been granted the admin role, which the store did not hold for the user then
C12_Witness ==
    /\ Verified /\ gate.passed
    /\ gate.token.iat = 0 /\ gate.at > 0
    /\ gate.user.roles = {"admin", "user"}
    /\ "post:delete:all" \in gate.user.permissions

(***************************************************************************)
(* C13.  verifyToken distinguishes its failure causes: the error of a      *)
(* verification that failed on an expired token differs from the error     *)
(* with which a token with a bad signature fails.                          *)
(***************************************************************************)
C13_DistinctVerifyErrors ==
    (Verified /\ gate.cause = "TokenExpiredError") =>
       \A t \in AccessTokens :
          VerifyCause(t, now) = "JsonWebTokenError" =>
             VerifyToken(t, now).error # gate.verifyError

(***************************************************************************)
(* C14.  Access tokens are stateless with respect to the session registry: *)
(* verifyToken accepts a token exactly when it is correctly signed and     *)
(* unexpired and its user exists and is active, whatever the sessions are. *)
(***************************************************************************)
C14_StatelessAccessToken ==
    [][ VerifyStep =>
          (gate'.passed <=>
              /\ SignedForUser(gate'.token)
              /\ Unexpired(gate'.token, now)
              /\ users[gate'.token.userId].isActive) ]_vars

\* a token is accepted after the logout of the only session of its user
C14_Witness ==
    /\ Verified /\ gate.passed
    /\ sessions # {}
    /\ \A s \in sessions : s.userId = gate.user.id /\ ~s.isActive
    /\ \E h \in Handlers : req[h].op = "logout" /\ Returned(h) /\ req[h].ok

(***************************************************************************)
(* What the guards have done.                                              *)
(***************************************************************************)
\* the last guarded request reached the guard of the given kinds with an identity
Guarded(kinds) == gate.n > 0 /\ gate.guard.kind \in kinds /\ gate.user # NoIdentity
Rejected(class, status) ==
    ~gate.passed /\ gate.error.class = class /\ gate.status = status

(***************************************************************************)
(* C15.  hasAllPermissions(identity, permissions) is true exactly when     *)
(* every listed permission is a member of the identity's permissions (an   *)
(* empty list is satisfied, 'post:delete:own' does not satisfy             *)
(* 'post:delete:all'), and requirePermissions lets an authenticated        *)
(* request through exactly in that case.                                   *)
(***************************************************************************)
C15_AllPermissions ==
    Guarded({"requirePermissions"}) =>
       /\ \A ps \in SUBSET PermissionNames :
             HasAllPermissions(gate.user, ps) <=> ps \subseteq gate.user.permissions
       /\ HasAllPermissions(gate.user, {})
       /\ gate.user.permissions = {"post:delete:own"}
             => ~HasAllPermissions(gate.user, {"post:delete:all"})
       /\ gate.passed <=> gate.guard.permissions \subseteq gate.user.permissions

\* an identity holding only 'post:delete:own' has been refused 'post:delete:all'
C15_Witness ==
    /\ Guarded({"requirePermissions"})
    /\ gate.user.permissions = {"post:delete:own"}
    /\ gate.guard.permissions = {"post:delete:all"}
    /\ Rejected("AuthorizationError", 403)

(***************************************************************************)
(* C16.  hasAnyRole(identity, roles) is true exactly when at least one     *)
(* listed role is a member of the identity's roles (an empty list is       *)
(* satisfied by no identity), and requireRoles lets an authenticated       *)
(* request through exactly in that case.                                   *)
(***************************************************************************)
C16_AnyRole ==
    Guarded({"requireRoles"}) =>
       /\ \A rs \in SUBSET RoleNames :
             HasAnyRole(gate.user, rs) <=> rs \cap gate.user.roles # {}
       /\ ~HasAnyRole(gate.user, {})
       /\ gate.passed <=> gate.guard.roles \cap gate.user.roles # {}

\* an identity holding one of the two listed roles has been let through
C16_Witness ==
    /\ Guarded({"requireRoles"})
    /\ gate.guard.roles = {"admin", "user"}
    /\ gate.user.roles = {"user"}
    /\ gate.passed

(***************************************************************************)
(* C17.  The ownership guards let an authenticated request on a resource   *)
(* through if and only if the identity holds the 'admin' role or its id is *)
(* the owner id the resource is recorded with; every other request is      *)
(* rejected with AuthorizationError.                                       *)
(***************************************************************************)
C17_OwnerOrAdmin ==
    (Guarded({"requireOwnerOrAdmin", "requireResourceOwnership"})
        /\ gate.guard.resourceId \in DOMAIN OwnerOf) =>
       /\ gate.passed <=> \/ HasRole(gate.user, "admin")
                          \/ gate.user.id = OwnerOf[gate.guard.resourceId]
       /\ ~gate.passed => Rejected("AuthorizationError", 403)

(***************************************************************************)
(* C18.  The guards never conflate 'not logged in' with 'forbidden': a     *)
(* request without a verified identity is rejected with AuthenticationError*)
(* and 401, a request whose identity lacks the role, permission or         *)
(* ownership is rejected with AuthorizationError and 403.                  *)
(***************************************************************************)
C18_AuthenticationVersusAuthorization ==
    gate.n > 0 =>
       /\ (gate.user = NoIdentity
              /\ (gate.guard # NoGuard \/ gate.auth = "authenticateToken"))
             => Rejected("AuthenticationError", 401)
       /\ (gate.user # NoIdentity /\ ~gate.passed
              /\ (gate.guard.kind = "requireResourceOwnership"
                     => gate.guard.resourceId \in DOMAIN OwnerOf))
             => Rejected("AuthorizationError", 403)

\* a request whose forged token optionalAuth has ignored has been rejected by
\* requireRoles as not authenticated
C18_Witness ==
    /\ gate.n > 0 /\ gate.auth = "optionalAuth"
    /\ gate.token # NoAccessToken /\ gate.cause = "JsonWebTokenError"
    /\ gate.guard.kind = "requireRoles"
    /\ gate.user = NoIdentity
    /\ Rejected("AuthenticationError", 401)

(***************************************************************************)
(* C19.  The audit log is append-only: every step of the core leaves the   *)
(* entries the log holds as they are, in their order, and adds at most one *)
(* entry at the end.                                                       *)
(***************************************************************************)
C19_AuditLogAppendOnly ==
    [][ /\ Len(auditLog') \in {Len(auditLog), Len(auditLog) + 1}
        /\ SubSeq(auditLog', 1, Len(auditLog)) = auditLog ]_vars

\* the purge has deleted a session and the entries of its login are in the log
C19_Witness ==
    /\ sessions = {} /\ nextSessionId > 1
    /\ Len(auditLog) >= 2
    /\ \E i \in 1 .. Len(auditLog) : auditLog[i].action = "LOGIN"

(***************************************************************************)
(* C20.  A failure of the audit sink never blocks the primary flow: when   *)
(* the audit write of a login, refresh or logout fails, the request goes   *)
(* on as it would have after the write, and ends with the result and the   *)
(* response it would have had.                                             *)
(***************************************************************************)
\* the step is one in which the audit write of h fails: h leaves its audit
\* step and the log has no new entry
SinkFailStep(h) == pc[h] \in AuditSteps /\ pc'[h] # pc[h] /\ auditLog' = auditLog
\* the request of h as it ends when its last audit write succeeds
OutcomeWithSink(h) ==
    IF pc[h] \in {"logNotFound", "logLocked", "logInvalid"}
    THEN Respond([req[h] EXCEPT !.ok = FALSE, !.error = FailureMessage(pc[h])])
    ELSE Respond([req[h] EXCEPT !.ok = TRUE])

C20_AuditFailureDoesNotBlock ==
    [][ \A h \in Handlers :
           SinkFailStep(h) =>
              IF pc[h] = "logIpMismatch"
              THEN pc'[h] = "rotate"
              ELSE /\ pc'[h] = "done"
                   /\ req'[h].ok = OutcomeWithSink(h).ok
                   /\ req'[h].response = OutcomeWithSink(h).response ]_vars

(***************************************************************************)
(* What errorHandler has done.                                             *)
(***************************************************************************)
\* the step is a request that ends in errorHandler
ErrorStep == gate'.n = gate.n + 1 /\ ~gate'.passed
\* the last guarded request ended in errorHandler
Errored == gate.n > 0 /\ ~gate.passed

(***************************************************************************)
(* C21.  No error raised while serving a request terminates the process:   *)
(* for every error that reaches errorHandler, in every NODE_ENV, a         *)
(* response is sent and the process keeps running.                         *)
(***************************************************************************)
C21_ErrorsNeverCrash ==
    [][ ErrorStep => (gate'.status # 0 /\ proc'.running) ]_vars

(***************************************************************************)
(* C22.  In production every error response sent with status 500 carries   *)
(* the message 'Internal server error', whatever error produced it.        *)
(***************************************************************************)
C22_SanitizedInternalError ==
    (Errored /\ proc.nodeEnv = "production" /\ gate.status = 500)
       => gate.message = SanitizedMessage

(***************************************************************************)
(* What the timers have done.                                              *)
(***************************************************************************)
\* the step is the failure of a job: the log of failures has grown
JobFailStep == proc'.jobError # proc.jobError \/ (proc.running /\ ~proc'.running)

(***************************************************************************)
(* C23.  A failure of the session purge or of the statistics job is caught *)
(* and logged and never propagates: it leaves the process running, the     *)
(* store and the requests in flight as they are, and later timers and      *)
(* requests are served.                                                    *)
(***************************************************************************)
C23_JobFailureContained ==
    [][ JobFailStep =>
           /\ proc'.running
           /\ \E job \in Jobs : proc'.jobError = [job |-> job, at |-> now]
           /\ UNCHANGED <<users, sessions, auditLog, pc, req, gate>> ]_vars

\* the purge has failed at instant 1 and has deleted a session at instant 2,
\* and a login has succeeded at instant 2
C23_Witness ==
    /\ proc.jobError = [job |-> "cleanupExpiredSessions", at |-> 1]
    /\ now = 2
    /\ nextSessionId > 1 /\ \A s \in sessions : s.expiresAt > 2
    /\ \E h \in Handlers : SucceededLogin(h) /\ users[req[h].userId].lastLoginAt = 2

(***************************************************************************)
(* C24.  A refresh from another address than the session's is not blocked: *)
(* the lookup accepts it whatever its address, it appends a                *)
(* REFRESH_TOKEN_IP_MISMATCH entry and goes on, with the locals it had, to *)
(* the rotation a refresh from the session's address goes to directly; the *)
(* mismatch entry precedes its TOKEN_REFRESH entry, and it returns new     *)
(* tokens for the rotated session.                                         *)
(***************************************************************************)
\* the step is LogIpMismatch(h)
MismatchStep(h) == pc[h] = "logIpMismatch" /\ pc'[h] # "logIpMismatch"
MismatchRow(h) ==
    AuditRow(req[h].userId, "REFRESH_TOKEN_IP_MISMATCH", "AUTH",
        [sessionIp |-> req[h].sessionIp, requestIp |-> req[h].ipAddress])
\* the step is LogRefresh(h): refreshToken returns the tokens
RefreshReturn(h) == pc[h] = "logRefresh" /\ pc'[h] = "done"
FromOtherAddress(r) == r.op = "refresh" /\ r.sessionId # NoSession /\ r.ipAddress # r.sessionIp

C24_IpMismatchDoesNotBlock ==
    [][ \A h \in Handlers :
           /\ RefreshArrives(h) =>
                 (RefreshAccepted(h) <=>
                     \E s \in sessions : Acceptable(s, req'[h].refreshToken, now))
           /\ (RefreshArrives(h) /\ RefreshAccepted(h)) =>
                 (pc'[h] = "logIpMismatch" <=> FromOtherAddress(req'[h]))
           /\ MismatchStep(h) =>
                 /\ pc'[h] = "rotate"
                 /\ auditLog' = Append(auditLog, MismatchRow(h))
                 /\ req'[h] = [req[h] EXCEPT !.logged = Append(@, MismatchRow(h))]
                 /\ UNCHANGED <<users, sessions, spent, issued>>
           /\ (RefreshReturn(h) /\ FromOtherAddress(req[h])) =>
                 /\ req'[h].ok /\ req'[h].response.status = 200
                 /\ req'[h].response.tokens = req[h].tokens
                 /\ Len(req'[h].logged) = 2
                 /\ req'[h].logged[1].action = "REFRESH_TOKEN_IP_MISMATCH"
                 /\ req'[h].logged[2].action = "TOKEN_REFRESH"
                 /\ \E i, j \in 1 .. Len(auditLog') :
                       /\ i < j
                       /\ auditLog'[i] = req'[h].logged[1]
                       /\ auditLog'[j] = req'[h].logged[2] ]_vars

\* a refresh from another address has returned tokens, and its session holds
\* the hash of the refresh token it returned
C24_Witness ==
    \E h \in Handlers :
       /\ Returned(h) /\ req[h].ok /\ FromOtherAddress(req[h])
       /\ req[h].ipAddress = "ip2"
       /\ \E s \in sessions :
             /\ s.id = req[h].sessionId
             /\ s.refreshToken = HashToken(req[h].tokens.refreshToken)
             /\ s.isActive
       /\ auditLog[Len(auditLog)].action = "TOKEN_REFRESH"
       /\ auditLog[Len(auditLog) - 1].action = "REFRESH_TOKEN_IP_MISMATCH"

(***************************************************************************)
(* C25.  The steps of a login are ordered and gated: an attempt for an     *)
(* unknown email or on a locked account, whatever its password, goes from  *)
(* the lookup to its audit entry and fails; its step after the lookup      *)
(* appends that entry and leaves every user row and the sessions as they   *)
(* are.  No step of a login writes a session before the reset, or the      *)
(* LOGIN entry before the session.                                         *)
(***************************************************************************)
\* the step gives handler h a login request that carries both fields
LoginArrives(h) == Chosen(h) /\ nreq' = nreq + 1 /\ req'[h].op = "login"
\* the lookup of the request r found no row, or a locked one
Gated(r) == r.op = "login" /\ (r.userId = NoUser \/ r.lockSeen # "none")
\* the step is one of handler h
StepOf(h) == pc'[h] # pc[h]

C25_LoginStepsGated ==
    [][ \A h \in Handlers :
           /\ (LoginArrives(h) /\ Gated(req'[h])) =>
                 /\ pc'[h] = (IF req'[h].userId = NoUser THEN "logNotFound" ELSE "logLocked")
                 /\ UNCHANGED <<users, sessions, auditLog>>
           /\ (StepOf(h) /\ Gated(req[h]) /\ ~Free(h)) =>
                 /\ pc'[h] = "done" /\ ~req'[h].ok
                 /\ Len(auditLog') = Len(auditLog) + 1
                 /\ auditLog'[Len(auditLog')].action = "LOGIN_FAILED"
                 /\ UNCHANGED <<users, sessions>>
           /\ (StepOf(h) /\ IsLogin(h) /\ ~Free(h)) =>
                 /\ sessions' # sessions => pc[h] = "createSession"
                 /\ pc'[h] = "createSession" => pc[h] = "reset"
                 /\ pc'[h] = "updateLastLogin" => pc[h] = "createSession"
                 /\ pc'[h] = "logLogin" => pc[h] = "updateLastLogin" ]_vars

\* a login with the correct password on the locked account has failed, and has
\* left the counter and the lock as the attempt that locked the account set them
C25_Witness ==
    \E h \in Handlers :
       /\ FailedLogin(h) /\ CorrectPassword(h) /\ req[h].lockSeen # "none"
       /\ Len(req[h].logged) = 1
       /\ req[h].logged[1].details.reason = "Account locked"
       /\ users[req[h].userId].failedLoginAttempts = maxLoginAttempts
       /\ users[req[h].userId].isLocked
       /\ users[req[h].userId].lastLoginAt = -1
       /\ sessions = {}

(***************************************************************************)
(* C26.  A successful login creates exactly one session: its createSession *)
(* step adds one row, active, owned by the user, holding the hash (not the *)
(* raw value) of the refresh token the login returns, with expiresAt = now *)
(* + sessionTimeoutMs, and leaves the other rows as they are; no other     *)
(* step of the login writes a session; its next step sets lastLoginAt, and *)
(* its return appends one LOGIN entry with success = true.                 *)
(***************************************************************************)
\* the step is CreateSession(h), UpdateLastLogin(h)
CreateSessionStep(h) == pc[h] = "createSession" /\ pc'[h] = "updateLastLogin"
LastLoginStep(h) == pc[h] = "updateLastLogin" /\ pc'[h] = "logLogin"
\* a stored value and a value are the same; a digest and a raw token are of
\* different kinds, and are compared as they are written
SameValue(a, b) == ToString(a) = ToString(b)
\* the rows of the session a login has created for the tokens of r
CreatedFor(r) ==
    IF r.tokens = NoTokens THEN {}
    ELSE {s \in sessions : SameValue(s.refreshToken, HashToken(r.tokens.refreshToken))}

C26_LoginCreatesOneSession ==
    [][ \A h \in Handlers :
           /\ CreateSessionStep(h) =>
                 \E s \in sessions' :
                    /\ s \notin sessions /\ sessions' = sessions \cup {s}
                    /\ \A o \in sessions : o.id # s.id
                    /\ s.userId = req[h].userId /\ s.isActive
                    /\ SameValue(s.refreshToken, HashToken(req'[h].tokens.refreshToken))
                    /\ ~SameValue(s.refreshToken, req'[h].tokens.refreshToken)
                    /\ s.expiresAt = now + sessionTimeoutMs
           /\ (StepOf(h) /\ IsLogin(h) /\ ~Free(h) /\ ~CreateSessionStep(h)) =>
                 sessions' = sessions
           /\ LastLoginStep(h) => users'[req[h].userId].lastLoginAt = now
           /\ LoginReturn(h) =>
                 /\ req'[h].ok /\ req'[h].response.tokens = req[h].tokens
                 /\ Len(auditLog') = Len(auditLog) + 1
                 /\ auditLog'[Len(auditLog')].action = "LOGIN"
                 /\ auditLog'[Len(auditLog')].userId = req[h].userId
                 /\ auditLog'[Len(auditLog')].details.success
                 /\ req'[h].logged = <<auditLog'[Len(auditLog')]>>
                 /\ Cardinality(CreatedFor(req[h])) = 1 ]_vars

\* a second login has succeeded: the user has the session of the first login
\* and the session of the second, each under the hash of its own token
C26_Witness ==
    \E h, g \in Handlers :
       /\ h # g /\ SucceededLogin(h) /\ SucceededLogin(g)
       /\ Cardinality(sessions) = 2
       /\ CreatedFor(req[h]) # CreatedFor(req[g])
       /\ \A s \in sessions : s.isActive /\ s.userId = req[h].userId
       /\ users[req[h].userId].lastLoginAt >= 0

(***************************************************************************)
(* C27.  When a refresh returns tokens, the session it refreshed holds the *)
(* hash of the refresh token it returns, with the expiry its rotation set, *)
(* and its TOKEN_REFRESH entry is in the log; also when two refreshes of   *)
(* the same session interleave.                                            *)
(***************************************************************************)
C27_ReturnedTokenResolves ==
    [][ \A h \in Handlers :
           RefreshReturn(h) =>
              /\ \E s \in sessions' :
                    /\ s.id = req[h].sessionId
                    /\ s.refreshToken = HashToken(req'[h].response.tokens.refreshToken)
                    /\ s.expiresAt = req[h].tokens.accessToken.iat + sessionTimeoutMs
              /\ auditLog'[Len(auditLog')].action = "TOKEN_REFRESH" ]_vars

(***************************************************************************)
(* What the logouts have done.                                             *)
(***************************************************************************)
\* the step is LogLogout(h): logoutUser returns
LogoutReturn(h) == pc[h] = "logLogout" /\ pc'[h] = "done" /\ req'[h].ok
\* handler h has served last a logout that found, and so revoked, a session
Revoked(h) ==
    /\ req[h].op = "logout" /\ Returned(h) /\ req[h].ok
    /\ req[h].sessionId # NoSession

(***************************************************************************)
(* C28.  Logout revokes the session: when a logout that found the session  *)
(* of its refresh token returns, the session is inactive; a refresh that   *)
(* arrives afterwards with that token, or with any token whose session is  *)
(* inactive, is rejected; and no step makes an inactive session active.    *)
(***************************************************************************)
C28_LogoutRevokes ==
    [][ /\ \A h \in Handlers :
              (LogoutReturn(h) /\ req[h].sessionId # NoSession) =>
                 \A s \in sessions' : s.id = req[h].sessionId => ~s.isActive
        /\ \A h, g \in Handlers :
              (RefreshArrives(h) /\ Revoked(g)
                  /\ req'[h].refreshToken = req[g].refreshToken) => RefreshRejected(h)
        /\ \A h \in Handlers :
              (RefreshArrives(h)
                  /\ \A s \in sessions :
                        s.refreshToken = HashToken(req'[h].refreshToken) => ~s.isActive)
                 => RefreshRejected(h)
        /\ \A s \in sessions, n \in sessions' :
              (n.id = s.id /\ ~s.isActive) => ~n.isActive ]_vars

\* after a logout has returned, a refresh with the token of the revoked
\* session, which has not expired, has been rejected
C28_Witness ==
    \E h, g \in Handlers :
       /\ Revoked(g)
       /\ Returned(h) /\ req[h].op = "refresh" /\ ~req[h].ok
       /\ req[h].error = RefreshMessage
       /\ req[h].refreshToken = req[g].refreshToken
       /\ \E s \in sessions :
             /\ s.id = req[g].sessionId /\ ~s.isActive /\ s.expiresAt > now
             /\ s.refreshToken = HashToken(req[h].refreshToken)

(***************************************************************************)
(* C29.  cleanupExpiredSessions deletes exactly the sessions whose         *)
(* expiresAt is before now, active or not, and leaves the others as they   *)
(* are: it deletes no session that a refresh would accept, and a session   *)
(* with expiresAt = now is neither accepted for refresh nor purged.        *)
(***************************************************************************)
\* the step is a purge that deletes something: rows go and none is written
PurgeStep == sessions' # sessions /\ sessions' \subseteq sessions

C29_PurgeExactlyExpired ==
    [][ /\ PurgeStep =>
              /\ sessions \ sessions' = {s \in sessions : s.expiresAt < now}
              /\ \A s \in sessions \ sessions', token \in PresentableTokens :
                    ~Acceptable(s, token, now)
              /\ \A s \in sessions : s.expiresAt = now => s \in sessions'
        /\ \A h \in Handlers :
              (RefreshArrives(h) /\ RefreshAccepted(h)) =>
                 \E s \in sessions : s.id = req'[h].sessionId /\ s.expiresAt > now ]_vars

\* a purge has deleted a session, and has left one that expires at this
\* instant, whose token a refresh has been refused
C29_Witness ==
    /\ nextSessionId > Cardinality(sessions) + 1
    /\ \E s \in sessions :
          /\ s.expiresAt = now /\ s.isActive
          /\ \E h \in Handlers :
                /\ Returned(h) /\ req[h].op = "refresh" /\ ~req[h].ok
                /\ s.refreshToken = HashToken(req[h].refreshToken)

(***************************************************************************)
(* C30.  A login completes its whole chain or fails as a whole: when a     *)
(* login has failed, for any reason, the store holds no session that the   *)
(* login has created.                                                      *)
(***************************************************************************)
C30_FailedLoginLeavesNoSession ==
    \A h \in Handlers : FailedLogin(h) => CreatedFor(req[h]) = {}


(***************************************************************************)
(* Concurrency of refresh and of failure counting.                         *)
(***************************************************************************)
\* the refreshToken call of handler h has returned tokens
RefreshSucceeded(h) == req[h].op = "refresh" /\ Returned(h) /\ req[h].ok

(***************************************************************************)
(* C31: a raw refresh token yields at most one successful refresh, also    *)
(* when two refreshToken calls presenting it interleave: two calls that    *)
(* present the same token never both return tokens.                        *)
(***************************************************************************)
C31_OneRefreshPerToken ==
    \A h, g \in Handlers :
        (h # g /\ RefreshSucceeded(h) /\ RefreshSucceeded(g))
            => req[h].refreshToken # req[g].refreshToken

(***************************************************************************)
(* C33: in every reachable state, also under interleaving, a locked        *)
(* account has failedLoginAttempts >= maxLoginAttempts.                    *)
(***************************************************************************)
C33_LockedImpliesThreshold ==
    \A u \in UserIds :
        users[u].isLocked => users[u].failedLoginAttempts >= maxLoginAttempts

\* a step of authenticateUser or refreshToken that creates or rotates a
\* session, or returns the tokens
GrantStep(h) ==
    \/ CreateSessionStep(h)
    \/ LoginReturn(h)
    \/ RotationStep(h)
    \/ RefreshReturn(h)

(***************************************************************************)
(* C35: no token pair is issued to a deactivated user: authenticateUser    *)
(* and refreshToken neither create or rotate a session nor return tokens   *)
(* for a user whose isActive is false.                                     *)
(***************************************************************************)
C35_NoTokensForDeactivated ==
    [][\A h \in Handlers : GrantStep(h) => users[req[h].userId].isActive]_vars


\* the increment of handleFailedLogin, run by handler h
IncrementStep(h) == pc[h] = "increment" /\ pc'[h] # "increment"

\* no increment is lost, and the count at the threshold has locked the account
C32_Counted ==
    \A u \in UserIds :
        /\ users[u].failedLoginAttempts = counted[u]
        /\ (counted[u] >= maxLoginAttempts /\ ~LockPending(u)) => users[u].isLocked

(***************************************************************************)
(* C32: failure counting loses no update under concurrency.  Each          *)
(* wrong-password attempt that passes the lock check adds exactly one to   *)
(* failedLoginAttempts of the row the store holds, so the counter equals   *)
(* the number of such attempts since the last successful login, and once   *)
(* maxLoginAttempts of them have run, in any interleaving, the account is  *)
(* locked.                                                                 *)
(***************************************************************************)
C32_NoLostIncrement ==
    [][ /\ C32_Counted'
        /\ \A h \in Handlers :
              IncrementStep(h) =>
                 users'[req[h].userId].failedLoginAttempts
                    = users[req[h].userId].failedLoginAttempts + 1 ]_vars

\* two wrong-password attempts whose lookups read the same count have both
\* been counted, and the account is locked
C32_Witness ==
    \E h, g \in Handlers :
       /\ h # g /\ FailedLogin(h) /\ FailedLogin(g)
       /\ ~CorrectPassword(h) /\ ~CorrectPassword(g)
       /\ req[h].userId = req[g].userId /\ req[h].userId # NoUser
       /\ req[h].lockSeen = "none" /\ req[g].lockSeen = "none"
       /\ req[h].seenCount = req[g].seenCount
       /\ counted[req[h].userId] = req[h].seenCount + 2
       /\ counted[req[h].userId] >= maxLoginAttempts
       /\ users[req[h].userId].isLocked


(***************************************************************************)
(* Logins that do not interleave: every login is served by the first       *)
(* handler, which takes the next one when it has answered the last.        *)
(***************************************************************************)
SeqLoginNext ==
    \/ \E email \in Emails, password \in Passwords, ip \in ClientIps :
          Login("h1", email, password, ip)
    \/ \E h \in Handlers : LogFailure(h)
    \/ \E h \in Handlers : IncrementFailed(h)
    \/ \E h \in Handlers : LockAccount(h)
    \/ \E h \in Handlers : ResetFailedLoginAttempts(h)
    \/ \E h \in Handlers : CreateSession(h)
    \/ \E h \in Handlers : UpdateLastLogin(h)
    \/ \E h \in Handlers : LogLogin(h)
    \/ Tick

SeqLoginSpec == InitIn("production") /\ [][SeqLoginNext]_vars

\* the counter is within the threshold, and at the threshold exactly when the
\* account is locked or the lock update of the same attempt is next
C34_Bounded ==
    \A u \in UserIds :
        /\ users[u].failedLoginAttempts <= maxLoginAttempts
        /\ users[u].isLocked
              <=> (users[u].failedLoginAttempts = maxLoginAttempts /\ ~LockPending(u))

(***************************************************************************)
(* C34: when the login attempts on an account do not interleave,           *)
(* failedLoginAttempts never exceeds maxLoginAttempts; the attempt that    *)
(* brings the counter to the threshold locks the account; and no attempt   *)
(* on a locked account changes the counter.                                *)
(***************************************************************************)
C34_SequentialCountBounded ==
    [][ /\ C34_Bounded'
        /\ \A h \in Handlers :
              /\ (IncrementStep(h)
                    /\ users'[req[h].userId].failedLoginAttempts = maxLoginAttempts)
                 => pc'[h] = "lock"
              /\ LockStep(h) => users'[req[h].userId].isLocked
        /\ \A u \in UserIds :
              users[u].isLocked
                 => users'[u].failedLoginAttempts = users[u].failedLoginAttempts ]_vars

\* a wrong-password attempt on the locked account has failed, and the counter
\* is still at the threshold
C34_Witness ==
    \E h \in Handlers :
       /\ FailedLogin(h) /\ ~CorrectPassword(h) /\ req[h].userId # NoUser
       /\ req[h].lockSeen # "none"
       /\ req[h].seenCount = maxLoginAttempts
       /\ users[req[h].userId].failedLoginAttempts = maxLoginAttempts
       /\ users[req[h].userId].isLocked


(***************************************************************************)
(* Logout: logins that present valid credentials, refresh, and logouts     *)
(* called for the owner of the sessions and for another identity.          *)
(***************************************************************************)
LogoutNext ==
    \/ \E h \in Handlers, u \in UserIds, ip \in ClientIps :
          Login(h, EmailOf[u], PlainPasswordOf[u], ip)
    \/ \E h \in Handlers : ResetFailedLoginAttempts(h)
    \/ \E h \in Handlers : CreateSession(h)
    \/ \E h \in Handlers : UpdateLastLogin(h)
    \/ \E h \in Handlers : LogLogin(h)
    \/ \E h \in Handlers, token \in issued, ip \in ClientIps : Refresh(h, token, ip)
    \/ \E h \in Handlers : UpdateSession(h)
    \/ \E h \in Handlers : LogRefresh(h)
    \/ \E h \in Handlers, userId \in UserIds \cup {OtherUser}, token \in issued,
          ip \in ClientIps :
          Logout(h, userId, token, ip)
    \/ \E h \in Handlers : Deactivate(h)
    \/ \E h \in Handlers : LogLogout(h)

LogoutSpec == InitIn("production") /\ [][LogoutNext]_vars

\* handler h takes a logout, and logoutUser's findFirst runs
LogoutArrives(h) == pc[h] \in {"idle", "done"} /\ req'[h].op = "logout" /\ req'[h] # req[h]
\* the update of logoutUser, run by handler h
DeactivateStep(h) == pc[h] = "deactivate" /\ pc'[h] # "deactivate"
\* a later step of the logout handler h serves
LogoutStep(h) == req[h].op = "logout" /\ pc'[h] # pc[h]
\* the session rows a step has changed or removed
ChangedRows == {s \in sessions : s \notin sessions'}

(***************************************************************************)
(* C36: logoutUser(userId, refreshToken) deactivates at most one session,  *)
(* the one its lookup found: owned by userId, with the stored hash of      *)
(* refreshToken.  Only isActive of that row changes, every other session   *)
(* is unchanged, and a logout that presents the refresh token of another   *)
(* user's session revokes nothing.                                         *)
(***************************************************************************)
C36_LogoutFrame ==
    [][ \A h \in Handlers :
          /\ LogoutArrives(h) =>
                /\ sessions' = sessions
                /\ pc'[h] = "deactivate" =>
                      \E s \in sessions :
                         /\ s.id = req'[h].sessionId /\ s.userId = req'[h].userId
                         /\ s.refreshToken = HashToken(req'[h].refreshToken)
                /\ (\A s \in sessions :
                       s.refreshToken = HashToken(req'[h].refreshToken)
                          => s.userId # req'[h].userId)
                      => (pc'[h] # "deactivate" /\ req'[h].sessionId = NoSession)
          /\ DeactivateStep(h) =>
                /\ Cardinality(ChangedRows) <= 1
                /\ \A s \in ChangedRows :
                      /\ s.id = req[h].sessionId /\ s.userId = req[h].userId
                      /\ sessions' = (sessions \ {s}) \cup {[s EXCEPT !.isActive = FALSE]}
                /\ ChangedRows = {} => sessions' = sessions
          /\ (LogoutStep(h) /\ ~DeactivateStep(h)) => sessions' = sessions ]_vars

\* the owner's logout has returned: the session of the presented token is
\* inactive, and the owner's other session is still active
C36_Witness ==
    \E h \in Handlers :
       /\ req[h].op = "logout" /\ Returned(h) /\ req[h].ok
       /\ req[h].sessionId # NoSession
       /\ \E s, t \in sessions :
             /\ s.id = req[h].sessionId /\ ~s.isActive /\ s.userId = req[h].userId
             /\ s.refreshToken = HashToken(req[h].refreshToken)
             /\ t.id # s.id /\ t.isActive /\ t.userId = req[h].userId


(***************************************************************************)
(* The rate limiter alone, for requests from two addresses, and the clock. *)
(***************************************************************************)
RateNext ==
    \/ \E ip \in RequestIps : RateLimitMiddleware(ip)
    \/ Tick

RateSpec == Init /\ [][RateNext]_vars

\* the admitted requests from ip whose timestamp is within the window that ends at t
AdmittedWithin(ip, t) ==
    {i \in 1 .. Len(decided) :
        decided[i].ip = ip /\ decided[i].admitted /\ decided[i].at > t - windowMs}

\* the same, after the step
AdmittedAfter(ip) ==
    {i \in 1 .. Len(decided') :
        decided'[i].ip = ip /\ decided'[i].admitted /\ decided'[i].at > now' - windowMs}

\* the middleware has served a request
RateStep == Len(decided') = Len(decided) + 1
\* the decision of that step
Decision == decided'[Len(decided')]

(***************************************************************************)
(* C37: for every address at every instant, at most max admitted requests  *)
(* from it have a timestamp within the last windowMs; a request is         *)
(* rejected exactly when max admitted requests of its own address are in   *)
(* the window, so requests from other addresses never change the decision; *)
(* a rejected request is not recorded; and a request leaves the lists of   *)
(* the other addresses as they were.                                       *)
(***************************************************************************)
C37_RateLimitWindow ==
    [][ /\ \A ip \in RequestIps : Cardinality(AdmittedAfter(ip)) <= max
        /\ RateStep =>
              /\ Decision.admitted
                    <=> Cardinality(AdmittedWithin(Decision.ip, now)) < max
              /\ Decision.ip \in DOMAIN requests'
              /\ Len(requests'[Decision.ip])
                    = Cardinality(AdmittedAfter(Decision.ip))
              /\ ~Decision.admitted =>
                    \A i \in 1 .. Len(requests'[Decision.ip]) :
                       requests'[Decision.ip][i] \in
                          {decided[j].at : j \in AdmittedWithin(Decision.ip, now)}
              /\ \A ip \in DOMAIN requests \ {Decision.ip} :
                    requests'[ip] = requests[ip] ]_vars

\* a request from one address has been rejected at an instant at which a
\* request from another address was admitted
C37_Witness ==
    \E i, j, k \in 1 .. Len(decided) :
       /\ i < j /\ j < k
       /\ decided[i].admitted /\ decided[i].ip = decided[k].ip
       /\ decided[j].admitted /\ decided[j].ip # decided[k].ip
       /\ ~decided[k].admitted
       /\ decided[i].at = decided[k].at /\ decided[j].at = decided[k].at
       /\ requests[decided[k].ip] = <<decided[i].at>>


(***************************************************************************)
(* The browser alone: the methods of the frontend service, page loads, and *)
(* the clock.                                                              *)
(***************************************************************************)
ClientNext ==
    \/ \E user \in ClientUsers, accessToken \in ClientAccessTokens,
          refreshToken \in ClientRefreshTokens, expiresIn \in ExpiresIns,
          sessionWorks \in BOOLEAN :
          ClientAuthenticate(user, accessToken, refreshToken, expiresIn, sessionWorks)
    \/ \E accessToken \in ClientAccessTokens, expiresIn \in ExpiresIns,
          sessionWorks \in BOOLEAN :
          ClientRefresh(accessToken, expiresIn, sessionWorks)
    \/ ClientLogout
    \/ \E token \in ClientAccessTokens, sessionWorks \in BOOLEAN :
          SetAccessToken(token, sessionWorks)
    \/ \E sessionWorks \in BOOLEAN : ClearAccessToken(sessionWorks)
    \/ \E userData \in ClientUsers, sessionWorks \in BOOLEAN :
          UpdateUserData(userData, sessionWorks)
    \/ NewInstance
    \/ Tick

ClientSpec == InitIn("production") /\ [][ClientNext]_vars

(***************************************************************************)
(* C38: after clearAccessToken() the access token it removed is absent     *)
(* from authState and from both browser storages, until an access token    *)
(* is set again; so an instance constructed afterwards does not recover    *)
(* it from storage.                                                        *)
(***************************************************************************)
C38_ClearedTokenGone ==
    client.cleared # Null =>
       /\ client.authState.accessToken # client.cleared
       /\ client.sessionStorage.ACCESS_TOKEN # client.cleared
       /\ client.localStorage.ACCESS_TOKEN # client.cleared

=============================================================================
